---- MODULE Spec2Model ----
(***************************************************************************)
(* Kokai2: browser key-pair generation wizard.                             *)
(*                                                                         *)
(* The module models                                                       *)
(*   - the parameter validator (errorHandler: validateCryptoParams,        *)
(*     validateOutputFormat, validatePassphrase, validateAll),             *)
(*   - the wizard state of App (src/src/App.js) with the step components   *)
(*     Step1..Step5 and the generation handler.                            *)
(*                                                                         *)
(* JavaScript strings that the code inspects character by character        *)
(* (keySize through parseInt, passphrase through .length) are sequences of *)
(* one-character strings; strings that are only compared for equality      *)
(* (keyType, outputFormat, messages) are TLA+ strings.                     *)
(***************************************************************************)
EXTENDS Integers, Sequences, FiniteSets, TLC

VARIABLES
    \* ---- validator harness (SpecValidate) ----
    vparams,            \* the params object handed to the validators
    vresult,            \* the four results, or NoResult before the call
    \* ---- App state (src/src/App.js) ----
    step, keyType, keySize, outputFormat, passphrase,
    isGenerating, generatedKeys, showResults,
    appError,           \* error of the later App (Step4.test.js, from line 204)
    localStorage,
    \* ---- component-local state ----
    step3Error,         \* Step3: error
    confirmPassphrase,  \* Step4: confirmPassphrase
    step4Error,         \* Step4: error
    step5Error,         \* Step5: error
    \* ---- generation in flight and its history ----
    pending,            \* continuations of handleGenerate waiting on an await
    attempts,           \* number of runs of Step5.handleGenerate
    genCalls,           \* number of invocations of a generate*KeyPair function
    primCalls,          \* number of invocations of a key-generation primitive
    lastTrace,          \* calls made by the latest run of Step5.handleGenerate
    \* ---- direct calls of the generators of crypto.js (SpecCrypto) ----
    cparams,            \* the key size and output format the caller holds
    ccall,              \* the latest call: function, argument, library calls, outcome
    cprev,              \* the call before it
    \* ---- App state of the single-page variant (src/index.html.taihi) ----
    hStep, hKeyType, hKeySize, hOutputFormat, hPassphrase,
    hGeneratedKeys, hIsGenerating, hError,
    hPending,           \* the run of generateKeyPair that waits on an await
    \* ---- calls of the metadata builder (SpecMetadata) ----
    mparams,            \* the parameters the caller builds metadata for
    mnow,               \* the clock that new Date() reads
    mlog,               \* the calls so far: parameters and result of each
    \* ---- calls of formatError (SpecFormat) ----
    fcall,              \* the latest call: the error handed over and the text returned
    fprev               \* the call before it

vars == <<vparams, vresult, step, keyType, keySize, outputFormat, passphrase,
          isGenerating, generatedKeys, showResults, appError, localStorage,
          step3Error, confirmPassphrase, step4Error, step5Error,
          pending, attempts, genCalls, primCalls, lastTrace,
          cparams, ccall, cprev,
          hStep, hKeyType, hKeySize, hOutputFormat, hPassphrase,
          hGeneratedKeys, hIsGenerating, hError, hPending,
          mparams, mnow, mlog, fcall, fprev>>

appVars == <<step, keyType, keySize, outputFormat, passphrase,
             isGenerating, generatedKeys, showResults, appError, localStorage,
             step3Error, confirmPassphrase, step4Error, step5Error,
             pending, attempts, genCalls, primCalls, lastTrace>>

harnessVars == <<vparams, vresult>>

cryptoVars == <<cparams, ccall, cprev>>

htmlVars == <<hStep, hKeyType, hKeySize, hOutputFormat, hPassphrase,
              hGeneratedKeys, hIsGenerating, hError, hPending>>

metadataVars == <<mparams, mnow, mlog, fcall, fprev>>

\* everything outside the App of src/src/App.js
outsideApp == <<harnessVars, cryptoVars, htmlVars, metadataVars>>

----------------------------------------------------------------------------
(* Bounds *)

\* longest passphrase that is typed or handed to the validator
MaxPassLen == 9

\* number of runs of Step5.handleGenerate in one behaviour
MaxRequests == 2

----------------------------------------------------------------------------
(* Strings as character sequences *)

Rep(c, n) == [i \in 1..n |-> c]

EmptyStr == <<>>

S2048   == <<"2", "0", "4", "8">>
S3072   == <<"3", "0", "7", "2">>
S4096   == <<"4", "0", "9", "6">>
S1024   == <<"1", "0", "2", "4">>
S2048d5 == <<"2", "0", "4", "8", ".", "5">>
S2048x  == <<"2", "0", "4", "8", "b", "i", "t">>
S0x800  == <<"0", "x", "8", "0", "0">>
Sp2048  == <<" ", "2", "0", "4", "8">>
SP256   == <<"P", "-", "2", "5", "6">>
SP384   == <<"P", "-", "3", "8", "4">>
SP192   == <<"P", "-", "1", "9", "2">>
SEd25519 == <<"E", "d", "2", "5", "5", "1", "9">>
SEd448  == <<"E", "d", "4", "4", "8">>
Sed25519 == <<"e", "d", "2", "5", "5", "1", "9">>

\* JavaScript truthiness of a string: non-empty
Truthy(s) == Len(s) > 0

----------------------------------------------------------------------------
(* parseInt(string) of ECMAScript: leading white space is skipped, a sign  *)
(* is read, a 0x / 0X prefix selects radix 16, then the longest prefix of  *)
(* digits of the radix is converted; no digit at all gives NaN.            *)

WhiteSpace == {" "}

DecDigits == {"0", "1", "2", "3", "4", "5", "6", "7", "8", "9"}

HexDigits == DecDigits \cup {"a", "b", "c", "d", "e", "f",
                             "A", "B", "C", "D", "E", "F"}

DigitVal(c) ==
    CASE c = "0" -> 0  [] c = "1" -> 1  [] c = "2" -> 2  [] c = "3" -> 3
      [] c = "4" -> 4  [] c = "5" -> 5  [] c = "6" -> 6  [] c = "7" -> 7
      [] c = "8" -> 8  [] c = "9" -> 9
      [] c \in {"a", "A"} -> 10  [] c \in {"b", "B"} -> 11
      [] c \in {"c", "C"} -> 12  [] c \in {"d", "D"} -> 13
      [] c \in {"e", "E"} -> 14  [] c \in {"f", "F"} -> 15

RECURSIVE StripWS(_)
StripWS(s) ==
    IF s # <<>> /\ Head(s) \in WhiteSpace THEN StripWS(Tail(s)) ELSE s

RECURSIVE DigitPrefix(_, _)
DigitPrefix(s, digits) ==
    IF s # <<>> /\ Head(s) \in digits
        THEN <<Head(s)>> \o DigitPrefix(Tail(s), digits)
        ELSE <<>>

RECURSIVE DigitsToInt(_, _, _)
DigitsToInt(ds, radix, acc) ==
    IF ds = <<>> THEN acc
    ELSE DigitsToInt(Tail(ds), radix, acc * radix + DigitVal(Head(ds)))

\* A JavaScript number: NaN, or an integer part and whether a non-zero
\* fraction follows it.
NaN == [isNaN |-> TRUE, val |-> 0, frac |-> FALSE]

Num(n) == [isNaN |-> FALSE, val |-> n, frac |-> FALSE]

NumFrac(n) == [isNaN |-> FALSE, val |-> n, frac |-> TRUE]

ParseInt(str) ==
    LET s1   == StripWS(str)
        neg  == s1 # <<>> /\ Head(s1) = "-"
        s2   == IF s1 # <<>> /\ Head(s1) \in {"+", "-"} THEN Tail(s1) ELSE s1
        hex  == Len(s2) >= 2 /\ s2[1] = "0" /\ s2[2] \in {"x", "X"}
        s3   == IF hex THEN Tail(Tail(s2)) ELSE s2
        ds   == DigitPrefix(s3, IF hex THEN HexDigits ELSE DecDigits)
        n    == DigitsToInt(ds, IF hex THEN 16 ELSE 10, 0)
    IN  IF ds = <<>> THEN NaN ELSE Num(IF neg THEN 0 - n ELSE n)

\* [a, b, c].includes(x) for a number x and a list of integers
IncludesNum(list, x) == ~x.isNaN /\ ~x.frac /\ x.val \in list

\* the value undefined, where a character sequence is expected
Undefined == <<"undefined">>

\* the value undefined, where a string compared by equality is expected
UndefinedAtom == "undefined"

RECURSIVE TrimEnd(_)
TrimEnd(s) ==
    IF s # <<>> /\ s[Len(s)] \in WhiteSpace
        THEN TrimEnd(SubSeq(s, 1, Len(s) - 1))
        ELSE s

(* Number(value) of ECMAScript for undefined and for strings: undefined is  *)
(* NaN; a string is trimmed, the empty string is 0, a 0x literal is read in *)
(* radix 16, a signed decimal literal with an optional fraction is read in  *)
(* radix 10, and any other text is NaN (exponents and Infinity do not occur *)
(* in the inputs and are read as NaN).                                      *)
ToNumber(v) ==
    IF v = Undefined THEN NaN
    ELSE
    LET s    == TrimEnd(StripWS(v))
        hex  == Len(s) >= 2 /\ s[1] = "0" /\ s[2] \in {"x", "X"}
        hds  == Tail(Tail(s))
        neg  == s # <<>> /\ Head(s) = "-"
        body == IF s # <<>> /\ Head(s) \in {"+", "-"} THEN Tail(s) ELSE s
        ip   == DigitPrefix(body, DecDigits)
        rest == SubSeq(body, Len(ip) + 1, Len(body))
        fp   == IF rest # <<>> /\ Head(rest) = "." THEN Tail(rest) ELSE <<>>
        ok   == \/ rest = <<>> /\ ip # <<>>
                \/ /\ rest # <<>>
                   /\ Head(rest) = "."
                   /\ DigitPrefix(fp, DecDigits) = fp
                   /\ (ip # <<>> \/ fp # <<>>)
        n    == DigitsToInt(ip, 10, 0)
        sn   == IF neg THEN 0 - n ELSE n
    IN  IF s = <<>> THEN Num(0)
        ELSE IF hex
            THEN IF hds # <<>> /\ DigitPrefix(hds, HexDigits) = hds
                    THEN Num(DigitsToInt(hds, 16, 0))
                    ELSE NaN
        ELSE IF ~ok THEN NaN
        ELSE IF \E i \in 1..Len(fp) : fp[i] # "0" THEN NumFrac(sn)
        ELSE Num(sn)

----------------------------------------------------------------------------
(* errorHandler: the parameter validator *)

\* The messages are the source's Japanese texts, transliterated to ASCII with
\* the names they mention (Ed25519, 2048/3072/4096, P-256/P-384, 8) kept.
MsgSshEd25519Only == "SSH ha Ed25519 nomi support shiteimasu."
MsgRsaKeySize     == "RSA no kagi size ha 2048/3072/4096 bit nomi support shiteimasu."
MsgEcdsaCurve     == "ECDSA ha P-256/P-384 nomi support shiteimasu."
MsgSshFormat      == "SSH keishiki ha RSA, ECDSA, Ed25519 nomi support shiteimasu."
MsgPassphraseLen  == "Passphrase ha 8 moji ijou hitsuyou desu."

Valid == [isValid |-> TRUE]

Invalid(msg) == [isValid |-> FALSE, message |-> msg]

RsaKeySizes == {2048, 3072, 4096}

EcdsaCurves == {SP256, SP384}

MinPassphraseLen == 8

\* variant: the ECDSA rule knows P-256 only
ValidateCryptoParams_P256Only(params) ==
    IF params.keyType = "eddsa" /\ params.keySize = SEd25519
            /\ params.outputFormat = "ssh"
        THEN Valid
    ELSE IF params.keyType = "eddsa" /\ params.keySize # SEd25519
            /\ params.outputFormat = "ssh"
        THEN Invalid(MsgSshEd25519Only)
    ELSE IF params.keyType = "rsa"
            /\ ~IncludesNum(RsaKeySizes, ParseInt(params.keySize))
        THEN Invalid(MsgRsaKeySize)
    ELSE IF params.keyType = "ecdsa" /\ params.keySize \notin {SP256}
        THEN Invalid(MsgEcdsaCurve)
    ELSE Valid

ValidateCryptoParams(params) ==
    IF params.keyType = "eddsa" /\ params.keySize = SEd25519
            /\ params.outputFormat = "ssh"
        THEN Valid
    ELSE IF params.keyType = "eddsa" /\ params.keySize # SEd25519
            /\ params.outputFormat = "ssh"
        THEN Invalid(MsgSshEd25519Only)
    ELSE IF params.keyType = "rsa"
            /\ ~IncludesNum(RsaKeySizes, ParseInt(params.keySize))
        THEN Invalid(MsgRsaKeySize)
    ELSE IF params.keyType = "ecdsa" /\ params.keySize \notin EcdsaCurves
        THEN Invalid(MsgEcdsaCurve)
    ELSE Valid

\* variant: every EdDSA curve passes the SSH rule
ValidateOutputFormat_AnyEdDSA(params) ==
    IF params.outputFormat = "ssh"
            /\ params.keyType \notin {"rsa", "ecdsa", "eddsa"}
        THEN Invalid(MsgSshFormat)
    ELSE Valid

ValidateOutputFormat(params) ==
    IF params.outputFormat = "ssh"
            /\ params.keyType \notin {"rsa", "ecdsa"}
            /\ ~(params.keyType = "eddsa" /\ params.keySize = SEd25519)
        THEN Invalid(MsgSshFormat)
    ELSE Valid

\* variant: the length comparison is <= instead of <
ValidatePassphrase_Inclusive(params) ==
    IF params.outputFormat \in {"pem", "pgp"} /\ Truthy(params.passphrase)
            /\ Len(params.passphrase) <= MinPassphraseLen
        THEN Invalid(MsgPassphraseLen)
    ELSE Valid

\* variant: the rejection carries an empty message
ValidatePassphrase_NoMessage(params) ==
    IF params.outputFormat \in {"pem", "pgp"} /\ Truthy(params.passphrase)
            /\ Len(params.passphrase) < MinPassphraseLen
        THEN Invalid("")
    ELSE Valid

ValidatePassphrase(params) ==
    IF params.outputFormat \in {"pem", "pgp"} /\ Truthy(params.passphrase)
            /\ Len(params.passphrase) < MinPassphraseLen
        THEN Invalid(MsgPassphraseLen)
    ELSE Valid

\* variant: the passphrase check is left out
ValidateAll_SkipsPassphrase(params) ==
    LET cryptoCheck     == ValidateCryptoParams(params)
        formatCheck     == ValidateOutputFormat(params)
    IN  IF ~cryptoCheck.isValid THEN cryptoCheck
        ELSE IF ~formatCheck.isValid THEN formatCheck
        ELSE Valid

\* variant: the output format is checked before the crypto parameters
ValidateAll_FormatFirst(params) ==
    LET cryptoCheck     == ValidateCryptoParams(params)
        formatCheck     == ValidateOutputFormat(params)
        passphraseCheck == ValidatePassphrase(params)
    IN  IF ~formatCheck.isValid THEN formatCheck
        ELSE IF ~cryptoCheck.isValid THEN cryptoCheck
        ELSE IF ~passphraseCheck.isValid THEN passphraseCheck
        ELSE Valid

ValidateAll(params) ==
    LET cryptoCheck     == ValidateCryptoParams(params)
        formatCheck     == ValidateOutputFormat(params)
        passphraseCheck == ValidatePassphrase(params)
    IN  IF ~cryptoCheck.isValid THEN cryptoCheck
        ELSE IF ~formatCheck.isValid THEN formatCheck
        ELSE IF ~passphraseCheck.isValid THEN passphraseCheck
        ELSE Valid

----------------------------------------------------------------------------
(* Inputs of the validator harness *)

KeyTypeInputs == {"", "rsa", "ecdsa", "eddsa", "dsa"}

KeySizeInputs == {EmptyStr, S2048, S3072, S4096, S1024, S2048d5, S2048x,
                  S0x800, Sp2048, SP256, SP384, SP192, SEd25519, SEd448,
                  Sed25519}

OutputFormatInputs == {"", "pem", "jwk", "ssh", "pgp", "openpgp"}

PassChars == {"p", "q"}

PassphraseInputs == {Rep(c, n) : c \in PassChars, n \in 0..MaxPassLen}

NoResult == [called |-> FALSE]

Params(kt, ks, of, pp) ==
    [keyType |-> kt, keySize |-> ks, outputFormat |-> of, passphrase |-> pp]

----------------------------------------------------------------------------
(* The validator harness: the params object is an input, one action calls  *)
(* the four validators on it.                                              *)

ValidatorInputs ==
    {Params(kt, ks, of, pp) : kt \in KeyTypeInputs, ks \in KeySizeInputs,
                              of \in OutputFormatInputs,
                              pp \in PassphraseInputs}

Null == [isNull |-> TRUE]

FreshStorage ==
    [step |-> 1, keyType |-> "", keySize |-> EmptyStr, outputFormat |-> "",
     passphrase |-> EmptyStr]

AppInitFrom(stored) ==
    /\ step = stored.step
    /\ keyType = stored.keyType
    /\ keySize = stored.keySize
    /\ outputFormat = stored.outputFormat
    /\ passphrase = stored.passphrase
    /\ isGenerating = FALSE
    /\ generatedKeys = Null
    /\ showResults = FALSE
    /\ appError = ""
    /\ localStorage = stored
    /\ step3Error = ""
    /\ confirmPassphrase = EmptyStr
    /\ step4Error = ""
    /\ step5Error = ""
    /\ pending = <<>>
    /\ attempts = 0
    /\ genCalls = 0
    /\ primCalls = 0
    /\ lastTrace = <<>>

NoCall == [called |-> FALSE]

\* the useState initial values of the single-page variant
HtmlInit ==
    /\ hStep = 1
    /\ hKeyType = ""
    /\ hKeySize = EmptyStr
    /\ hOutputFormat = ""
    /\ hPassphrase = EmptyStr
    /\ hGeneratedKeys = Null
    /\ hIsGenerating = FALSE
    /\ hError = <<>>
    /\ hPending = <<>>

\* no call of the metadata builder yet
MetadataIdle ==
    /\ mparams = [keyType |-> "", keySize |-> <<>>, outputFormat |-> "",
                  passphrase |-> <<>>]
    /\ mnow = 0
    /\ mlog = <<>>
    /\ fcall = NoCall
    /\ fprev = NoCall

InitValidate ==
    /\ vparams \in ValidatorInputs
    /\ vresult = NoResult
    /\ AppInitFrom(FreshStorage)
    /\ cparams = [keySize |-> EmptyStr, outputFormat |-> ""]
    /\ ccall = NoCall
    /\ cprev = NoCall
    /\ HtmlInit
    /\ MetadataIdle

CallValidators ==
    /\ ~vresult.called
    /\ vresult' = [called     |-> TRUE,
                   crypto     |-> ValidateCryptoParams(vparams),
                   format     |-> ValidateOutputFormat(vparams),
                   passphrase |-> ValidatePassphrase(vparams),
                   all        |-> ValidateAll(vparams)]
    /\ UNCHANGED vparams
    /\ UNCHANGED appVars
    /\ UNCHANGED cryptoVars
    /\ UNCHANGED htmlVars
    /\ UNCHANGED metadataVars

NextValidate == CallValidators

SpecValidate == InitValidate /\ [][NextValidate]_vars

----------------------------------------------------------------------------
(* crypto.js: the entry checks of the three generators and the primitive   *)
(* each of them invokes first.  The result is either an exception thrown    *)
(* before any primitive is invoked, or the name of the invoked primitive.   *)

MsgGenRsaKeySize   == "RSA no kagi size ha 2048/3072/4096 bit nomi taiou shiteimasu"
MsgGenFormat       == "Mukou na shutsuryoku keishiki: pem/jwk/ssh/pgp wo shitei shite kudasai"
MsgGenEcdsaCurve   == "ECDSA ha P-256/P-384 nomi taiou shiteimasu"
MsgGenEdDSACurve   == "EdDSA ha Ed25519/Ed448 nomi taiou shiteimasu"
MsgGenEdDSAFormat  == "Mukou na shutsuryoku keishiki: pem/ssh/pgp wo shitei shite kudasai (EdDSA ha JWK hitaiou)"

Threw(msg) == [threw |-> TRUE, message |-> msg]

Invokes(primitive) == [threw |-> FALSE, primitive |-> primitive]

SubtleGenerateKey == "crypto.subtle.generateKey"

OpenpgpGenerateKey == "openpgp.generateKey"

\* the object pattern { keySize, outputFormat, passphrase = '' } applied to a
\* number: a number has none of the properties
DestructureNumber ==
    [keySize |-> Undefined, outputFormat |-> UndefinedAtom,
     passphrase |-> EmptyStr]

\* variant: the pgp request goes to the native primitive like the others
GenerateRSAKeyPair_NativeForPgp(arg) ==
    IF ~IncludesNum(RsaKeySizes, ToNumber(arg.keySize))
        THEN Threw(MsgGenRsaKeySize)
    ELSE IF arg.outputFormat \notin {"pem", "jwk", "ssh", "pgp"}
        THEN Threw(MsgGenFormat)
    ELSE Invokes(SubtleGenerateKey)

\* variant: the size is read with parseInt, as validateCryptoParams reads it
GenerateRSAKeyPair_ParseInt(arg) ==
    IF ~IncludesNum(RsaKeySizes, ParseInt(arg.keySize))
        THEN Threw(MsgGenRsaKeySize)
    ELSE IF arg.outputFormat \notin {"pem", "jwk", "ssh", "pgp"}
        THEN Threw(MsgGenFormat)
    ELSE IF arg.outputFormat = "pgp" THEN Invokes(OpenpgpGenerateKey)
    ELSE Invokes(SubtleGenerateKey)

GenerateRSAKeyPair(arg) ==
    IF ~IncludesNum(RsaKeySizes, ToNumber(arg.keySize))
        THEN Threw(MsgGenRsaKeySize)
    ELSE IF arg.outputFormat \notin {"pem", "jwk", "ssh", "pgp"}
        THEN Threw(MsgGenFormat)
    ELSE IF arg.outputFormat = "pgp" THEN Invokes(OpenpgpGenerateKey)
    ELSE Invokes(SubtleGenerateKey)

GenerateECDSAKeyPair(arg) ==
    IF arg.keySize \notin {SP256, SP384}
        THEN Threw(MsgGenEcdsaCurve)
    ELSE IF arg.outputFormat \notin {"pem", "jwk", "ssh", "pgp"}
        THEN Threw(MsgGenFormat)
    ELSE IF arg.outputFormat = "pgp" THEN Invokes(OpenpgpGenerateKey)
    ELSE Invokes(SubtleGenerateKey)

\* variant: the format check lets jwk through
GenerateEdDSAKeyPair_JwkAllowed(arg) ==
    IF arg.keySize \notin {SEd25519, SEd448}
        THEN Threw(MsgGenEdDSACurve)
    ELSE IF arg.outputFormat \notin {"pem", "jwk", "ssh", "pgp"}
        THEN Threw(MsgGenEdDSAFormat)
    ELSE Invokes(OpenpgpGenerateKey)

GenerateEdDSAKeyPair(arg) ==
    IF arg.keySize \notin {SEd25519, SEd448}
        THEN Threw(MsgGenEdDSACurve)
    ELSE IF arg.outputFormat \notin {"pem", "ssh", "pgp"}
        THEN Threw(MsgGenEdDSAFormat)
    ELSE Invokes(OpenpgpGenerateKey)

\* what crypto.js exports; an import of any other name is undefined
CryptoExports == {"generateRSAKeyPair", "generateECDSAKeyPair",
                  "generateEdDSAKeyPair", "generateMetadata"}

----------------------------------------------------------------------------
(* crypto.js: the generators in full.  The libraries (Web Crypto, node-forge, *)
(* openpgp.js) are outside the repository: a library call either returns a    *)
(* value, written here as a record that says what the value is, or throws.    *)
(* The key material a generation primitive draws is an input.                 *)

Materials == {"k1", "k2"}

MsgLibrary == "library error"

ExportKey == "crypto.subtle.exportKey"

PublicKeyToPem == "forge.pki.publicKeyToPem"

PrivateKeyToPem == "forge.pki.privateKeyToPem"

EncryptRsaPrivateKey == "forge.pki.encryptRsaPrivateKey"

EncryptPemPrivateKey == "forge.pki.encryptPemPrivateKey"

PublicKeyFromAsn1 == "forge.pki.publicKeyFromAsn1"

PrivateKeyFromAsn1 == "forge.pki.privateKeyFromAsn1"

PublicKeyToOpenSSH == "forge.ssh.publicKeyToOpenSSH"

PrivateKeyToOpenSSH == "forge.ssh.privateKeyToOpenSSH"

OpenpgpReadKey == "openpgp.readKey"

OpenpgpReadPrivateKey == "openpgp.readPrivateKey"

OpenpgpEncryptKey == "openpgp.encryptKey"

BufferFrom == "Buffer.from"

\* an encoded key: its encoding, the block or line type it carries, the key
\* material it encodes, and whether and under which passphrase it is encrypted
KeyOut(form, block, m, encrypted, pass) ==
    [form |-> form, block |-> block, material |-> m,
     encrypted |-> encrypted, pass |-> pass]

\* let publicKey, privateKey; left unassigned
UndefinedKey == [form |-> "undefined"]

Returned(pub, priv) == [threw |-> FALSE, publicKey |-> pub, privateKey |-> priv]

\* what openpgp.generateKey({ passphrase, format: 'armored' }) resolves to:
\* the private block is encrypted exactly when the passphrase is non-empty
ArmoredKeyPair(m, pass) ==
    [publicKey  |-> KeyOut("pgp", "PGP PUBLIC KEY BLOCK", m, FALSE, EmptyStr),
     privateKey |-> KeyOut("pgp", "PGP PRIVATE KEY BLOCK", m, Truthy(pass),
                           IF Truthy(pass) THEN pass ELSE EmptyStr)]

\* forge.ssh.privateKeyToOpenSSH(key, passphrase || undefined): the PEM of the
\* key without a passphrase, the encrypted PEM with one
PrivateKeyToOpenSSHResult(m, pass) ==
    IF Truthy(pass)
        THEN KeyOut("pem", "RSA PRIVATE KEY", m, TRUE, pass)
        ELSE KeyOut("pem", "RSA PRIVATE KEY", m, FALSE, EmptyStr)

\* the library calls that follow the generation primitive, in program order
NativeLibraryCalls(arg, encrypt) ==
    CASE arg.outputFormat = "pem" ->
            <<ExportKey, ExportKey, PublicKeyToPem, PrivateKeyToPem>>
                \o (IF Truthy(arg.passphrase) THEN <<encrypt>> ELSE <<>>)
      [] arg.outputFormat = "jwk" -> <<ExportKey, ExportKey>>
      [] arg.outputFormat = "ssh" ->
            <<ExportKey, ExportKey, PublicKeyFromAsn1, PrivateKeyFromAsn1,
              PublicKeyToOpenSSH, PrivateKeyToOpenSSH>>
      [] OTHER -> <<>>

\* variant: the SSH branch does not hand the passphrase to the encoder
NativeEncode_SshPlain(arg, m, sshType) ==
    CASE arg.outputFormat = "pem" ->
            Returned(KeyOut("pem", "PUBLIC KEY", m, FALSE, EmptyStr),
                     IF Truthy(arg.passphrase)
                        THEN KeyOut("pem", "ENCRYPTED PRIVATE KEY", m, TRUE,
                                    arg.passphrase)
                        ELSE KeyOut("pem", "RSA PRIVATE KEY", m, FALSE, EmptyStr))
      [] arg.outputFormat = "jwk" ->
            Returned(KeyOut("jwk", "public", m, FALSE, EmptyStr),
                     KeyOut("jwk", "private", m, FALSE, EmptyStr))
      [] arg.outputFormat = "ssh" ->
            Returned(KeyOut("openssh", sshType, m, FALSE, EmptyStr),
                     PrivateKeyToOpenSSHResult(m, EmptyStr))
      [] OTHER -> Returned(UndefinedKey, UndefinedKey)

\* variant: the SSH public key line carries the passphrase as its comment
NativeEncode_PassInComment(arg, m, sshType) ==
    CASE arg.outputFormat = "pem" ->
            Returned(KeyOut("pem", "PUBLIC KEY", m, FALSE, EmptyStr),
                     IF Truthy(arg.passphrase)
                        THEN KeyOut("pem", "ENCRYPTED PRIVATE KEY", m, TRUE,
                                    arg.passphrase)
                        ELSE KeyOut("pem", "RSA PRIVATE KEY", m, FALSE, EmptyStr))
      [] arg.outputFormat = "jwk" ->
            Returned(KeyOut("jwk", "public", m, FALSE, EmptyStr),
                     KeyOut("jwk", "private", m, FALSE, EmptyStr))
      [] arg.outputFormat = "ssh" ->
            Returned(KeyOut("openssh", sshType, m, FALSE, arg.passphrase),
                     PrivateKeyToOpenSSHResult(m, arg.passphrase))
      [] OTHER -> Returned(UndefinedKey, UndefinedKey)

\* switch (outputFormat) of generateRSAKeyPair and generateECDSAKeyPair on a
\* native key pair of material m
NativeEncode(arg, m, sshType) ==
    CASE arg.outputFormat = "pem" ->
            Returned(KeyOut("pem", "PUBLIC KEY", m, FALSE, EmptyStr),
                     IF Truthy(arg.passphrase)
                        THEN KeyOut("pem", "ENCRYPTED PRIVATE KEY", m, TRUE,
                                    arg.passphrase)
                        ELSE KeyOut("pem", "RSA PRIVATE KEY", m, FALSE, EmptyStr))
      [] arg.outputFormat = "jwk" ->
            Returned(KeyOut("jwk", "public", m, FALSE, EmptyStr),
                     KeyOut("jwk", "private", m, FALSE, EmptyStr))
      [] arg.outputFormat = "ssh" ->
            Returned(KeyOut("openssh", sshType, m, FALSE, EmptyStr),
                     PrivateKeyToOpenSSHResult(m, arg.passphrase))
      [] OTHER -> Returned(UndefinedKey, UndefinedKey)

\* the outputFormat === 'pgp' branch of generateRSAKeyPair and
\* generateECDSAKeyPair
PgpEncode(arg, m) ==
    Returned(ArmoredKeyPair(m, arg.passphrase).publicKey,
             ArmoredKeyPair(m, arg.passphrase).privateKey)

EdDSALibraryCalls(arg) ==
    CASE arg.outputFormat = "ssh" ->
            <<OpenpgpReadKey, OpenpgpReadPrivateKey, BufferFrom>>
                \o (IF Truthy(arg.passphrase) THEN <<OpenpgpEncryptKey>>
                                              ELSE <<>>)
      [] OTHER -> <<>>

\* switch (outputFormat) of generateEdDSAKeyPair on the armored pair key
EdDSAEncode(arg, m, sshType) ==
    LET key == ArmoredKeyPair(m, arg.passphrase)
    IN  CASE arg.outputFormat \in {"pem", "pgp"} ->
                Returned(key.publicKey, key.privateKey)
          [] arg.outputFormat = "ssh" ->
                Returned(KeyOut("openssh", sshType, m, FALSE, EmptyStr),
                         key.privateKey)
          [] OTHER -> Returned(UndefinedKey, UndefinedKey)

\* One run of a generator: the entry checks and the first primitive (entry),
\* the library calls after it (rest) and the value returned when none of them
\* throws.  failAt is the position of the library call that throws, 0 for
\* none; the catch block logs the error and throws it again.
RunGenerator(entry, rest, encoded, failAt) ==
    IF entry.threw
        THEN [calls |-> <<>>, outcome |-> entry]
    ELSE LET all == <<entry.primitive>> \o rest
         IN  IF failAt \in 1..Len(all)
                THEN [calls |-> SubSeq(all, 1, failAt),
                      outcome |-> Threw(MsgLibrary)]
                ELSE [calls |-> all, outcome |-> encoded]

SshTypeEcdsa(ks) ==
    IF ks = SP256 THEN "ecdsa-sha2-nistp256" ELSE "ecdsa-sha2-nistp384"

SshTypeEdDSA(ks) ==
    IF ks = SEd25519 THEN "ssh-ed25519" ELSE "ssh-ed448"

RunRSA(arg, m, failAt) ==
    LET entry == GenerateRSAKeyPair(arg)
    IN  IF entry.threw THEN RunGenerator(entry, <<>>, entry, 0)
        ELSE IF arg.outputFormat = "pgp"
            THEN RunGenerator(entry, <<>>, PgpEncode(arg, m), failAt)
        ELSE RunGenerator(entry, NativeLibraryCalls(arg, EncryptRsaPrivateKey),
                          NativeEncode(arg, m, "rsa"), failAt)

RunECDSA(arg, m, failAt) ==
    LET entry == GenerateECDSAKeyPair(arg)
    IN  IF entry.threw THEN RunGenerator(entry, <<>>, entry, 0)
        ELSE IF arg.outputFormat = "pgp"
            THEN RunGenerator(entry, <<>>, PgpEncode(arg, m), failAt)
        ELSE RunGenerator(entry, NativeLibraryCalls(arg, EncryptPemPrivateKey),
                          NativeEncode(arg, m, SshTypeEcdsa(arg.keySize)),
                          failAt)

RunEdDSA(arg, m, failAt) ==
    LET entry == GenerateEdDSAKeyPair(arg)
    IN  IF entry.threw THEN RunGenerator(entry, <<>>, entry, 0)
        ELSE RunGenerator(entry, EdDSALibraryCalls(arg),
                          EdDSAEncode(arg, m, SshTypeEdDSA(arg.keySize)),
                          failAt)

----------------------------------------------------------------------------------------------------------------------------------------
(* The generator harness: a caller holds a key size and an output format and *)
(* invokes the three generators of crypto.js with them, one call after the   *)
(* other, each call with a passphrase of its own; the latest two calls are   *)
(* kept.                                                                     *)

CryptoKeySizeInputs ==
    {S2048, S1024, S2048x, Sp2048, SP256, SEd25519, SEd448}

CryptoFormatInputs == {"", "pem", "jwk", "ssh", "pgp"}

CryptoPassphraseInputs ==
    {EmptyStr, Rep("p", MinPassphraseLen), Rep("q", MinPassphraseLen)}

Arg(sel, pass) ==
    [keySize |-> sel.keySize, outputFormat |-> sel.outputFormat,
     passphrase |-> pass]

\* the longest sequence of library calls of one run
MaxLibraryCalls == 7

Call(fn, arg, m, run) ==
    [called   |-> TRUE,
     fn       |-> fn,
     arg      |-> arg,
     material |-> IF run.outcome.threw THEN "none" ELSE m,
     calls    |-> run.calls,
     outcome  |-> run.outcome]

InitCrypto ==
    /\ vparams = Params("", EmptyStr, "", EmptyStr)
    /\ vresult = NoResult
    /\ AppInitFrom(FreshStorage)
    /\ cparams \in [keySize : CryptoKeySizeInputs,
                    outputFormat : CryptoFormatInputs]
    /\ ccall = NoCall
    /\ cprev = NoCall
    /\ HtmlInit
    /\ MetadataIdle

CallGenerateRSAKeyPair ==
    /\ \E pass \in CryptoPassphraseInputs, m \in Materials,
          failAt \in 0..MaxLibraryCalls :
        ccall' = Call("generateRSAKeyPair", Arg(cparams, pass), m,
                      RunRSA(Arg(cparams, pass), m, failAt))
    /\ cprev' = ccall
    /\ UNCHANGED cparams
    /\ UNCHANGED harnessVars
    /\ UNCHANGED appVars
    /\ UNCHANGED htmlVars
    /\ UNCHANGED metadataVars

CallGenerateECDSAKeyPair ==
    /\ \E pass \in CryptoPassphraseInputs, m \in Materials,
          failAt \in 0..MaxLibraryCalls :
        ccall' = Call("generateECDSAKeyPair", Arg(cparams, pass), m,
                      RunECDSA(Arg(cparams, pass), m, failAt))
    /\ cprev' = ccall
    /\ UNCHANGED cparams
    /\ UNCHANGED harnessVars
    /\ UNCHANGED appVars
    /\ UNCHANGED htmlVars
    /\ UNCHANGED metadataVars

CallGenerateEdDSAKeyPair ==
    /\ \E pass \in CryptoPassphraseInputs, m \in Materials,
          failAt \in 0..MaxLibraryCalls :
        ccall' = Call("generateEdDSAKeyPair", Arg(cparams, pass), m,
                      RunEdDSA(Arg(cparams, pass), m, failAt))
    /\ cprev' = ccall
    /\ UNCHANGED cparams
    /\ UNCHANGED harnessVars
    /\ UNCHANGED appVars
    /\ UNCHANGED htmlVars
    /\ UNCHANGED metadataVars

NextCrypto ==
    \/ CallGenerateRSAKeyPair
    \/ CallGenerateECDSAKeyPair
    \/ CallGenerateEdDSAKeyPair

SpecCrypto == InitCrypto /\ [][NextCrypto]_vars

----------------
(* The wizard: App (src/src/App.js) with Step1 .. Step5 *)

\* the options the step components offer
KeyTypeOptions == {"rsa", "ecdsa", "eddsa"}

KeySizeOptions(kt) ==
    CASE kt = "rsa"   -> {S2048, S3072, S4096}
      [] kt = "ecdsa" -> {SP256, SP384}
      [] kt = "eddsa" -> {SEd25519, SEd448}
      [] OTHER        -> {}

OutputFormatOptions == {"pem", "jwk", "ssh", "pgp"}

\* the passphrases a user types: none, one below the minimum length, and two
\* different ones of the minimum length
TypedPassLens == {n \in {MinPassphraseLen - 1, MinPassphraseLen} : n <= MaxPassLen}

TypedPassphrases ==
    {EmptyStr} \cup {Rep("p", n) : n \in TypedPassLens}
               \cup {Rep("q", n) : n \in {MinPassphraseLen} \cap TypedPassLens}

\* what an earlier session of the wizard left in localStorage
StoredStates ==
    [step : 1..5,
     keyType : {""} \cup KeyTypeOptions,
     keySize : {EmptyStr} \cup UNION {KeySizeOptions(kt) : kt \in KeyTypeOptions},
     outputFormat : {""} \cup OutputFormatOptions,
     passphrase : TypedPassphrases]

CurParams == Params(keyType, keySize, outputFormat, passphrase)

\* variant: the results are saved along with the selections
Persisted_WithKeys(s, kt, ks, of, pp) ==
    [step |-> s, keyType |-> kt, keySize |-> ks, outputFormat |-> of,
     passphrase |-> pp, generatedKeys |-> generatedKeys]

\* the useEffect hooks: every render writes the five values to localStorage
Persisted(s, kt, ks, of, pp) ==
    [step |-> s, keyType |-> kt, keySize |-> ks, outputFormat |-> of,
     passphrase |-> pp]

\* A continuation that waits on an already settled promise runs as a
\* microtask, before any further user event is handled.
NoMicrotask == \A i \in 1..Len(pending) : ~pending[i].ready

\* local state of a step component is created afresh when the step is mounted
StepLocalReset ==
    /\ step3Error' = ""
    /\ confirmPassphrase' = EmptyStr
    /\ step4Error' = ""
    /\ step5Error' = ""

genVars == <<isGenerating, generatedKeys, showResults, appError, pending, attempts,
             genCalls, primCalls, lastTrace>>

Init ==
    /\ vparams = Params("", EmptyStr, "", EmptyStr)
    /\ vresult = NoResult
    /\ \E stored \in StoredStates : AppInitFrom(stored)
    /\ cparams = [keySize |-> EmptyStr, outputFormat |-> ""]
    /\ ccall = NoCall
    /\ cprev = NoCall
    /\ HtmlInit
    /\ MetadataIdle

\* App.handleNext
HandleNext ==
    /\ step' = IF step + 1 < 5 THEN step + 1 ELSE 5
    /\ StepLocalReset
    /\ localStorage' = Persisted(step', keyType, keySize, outputFormat, passphrase)
    /\ UNCHANGED <<keyType, keySize, outputFormat, passphrase>>

\* App.handleBack, from the Back button of Step2 .. Step5
HandleBack ==
    /\ NoMicrotask
    /\ step \in 2..5
    /\ step' = IF step - 1 > 1 THEN step - 1 ELSE 1
    /\ StepLocalReset
    /\ localStorage' = Persisted(step', keyType, keySize, outputFormat, passphrase)
    /\ UNCHANGED <<keyType, keySize, outputFormat, passphrase>>
    /\ UNCHANGED genVars
    /\ UNCHANGED outsideApp

\* Step1: click on a key type
Step1Select ==
    /\ NoMicrotask
    /\ step = 1
    /\ \E kt \in KeyTypeOptions :
        /\ keyType' = kt
        /\ localStorage' = Persisted(step, kt, keySize, outputFormat, passphrase)
    /\ UNCHANGED <<step, keySize, outputFormat, passphrase>>
    /\ UNCHANGED <<step3Error, confirmPassphrase, step4Error, step5Error>>
    /\ UNCHANGED genVars
    /\ UNCHANGED outsideApp

\* Step2: click on one of the sizes available for the key type
Step2Select ==
    /\ NoMicrotask
    /\ step = 2
    /\ \E ks \in KeySizeOptions(keyType) :
        /\ keySize' = ks
        /\ localStorage' = Persisted(step, keyType, ks, outputFormat, passphrase)
    /\ UNCHANGED <<step, keyType, outputFormat, passphrase>>
    /\ UNCHANGED <<step3Error, confirmPassphrase, step4Error, step5Error>>
    /\ UNCHANGED genVars
    /\ UNCHANGED outsideApp

\* Step3.handleSelect; the button of a format that validateOutputFormat
\* rejects is disabled
Step3Select ==
    /\ NoMicrotask
    /\ step = 3
    /\ \E format \in OutputFormatOptions :
        LET validation == ValidateOutputFormat(
                            Params(keyType, keySize, format, EmptyStr))
        IN  /\ validation.isValid
            /\ step3Error' = ""
            /\ outputFormat' = format
            /\ localStorage' = Persisted(step, keyType, keySize, format, passphrase)
    /\ UNCHANGED <<step, keyType, keySize, passphrase>>
    /\ UNCHANGED <<confirmPassphrase, step4Error, step5Error>>
    /\ UNCHANGED genVars
    /\ UNCHANGED outsideApp

\* Step4: typing into the passphrase input
Step4TypePassphrase ==
    /\ NoMicrotask
    /\ step = 4
    /\ \E value \in TypedPassphrases :
        /\ passphrase' = value
        /\ localStorage' = Persisted(step, keyType, keySize, outputFormat, value)
    /\ UNCHANGED <<step, keyType, keySize, outputFormat>>
    /\ UNCHANGED <<step3Error, confirmPassphrase, step4Error, step5Error>>
    /\ UNCHANGED genVars
    /\ UNCHANGED outsideApp

\* Step4: typing into the confirmation input, shown once a passphrase is set
Step4TypeConfirm ==
    /\ NoMicrotask
    /\ step = 4
    /\ Truthy(passphrase)
    /\ \E value \in TypedPassphrases : confirmPassphrase' = value
    /\ UNCHANGED <<step, keyType, keySize, outputFormat, passphrase, localStorage>>
    /\ UNCHANGED <<step3Error, step4Error, step5Error>>
    /\ UNCHANGED genVars
    /\ UNCHANGED outsideApp

ErrorMatch == "texts.errorMatch"

ErrorLength == "texts.errorLength"

\* Step4.validateInput, the Next button of Step4
Step4Next ==
    /\ NoMicrotask
    /\ step = 4
    /\ LET validation == ValidatePassphrase(
                            [outputFormat |-> outputFormat,
                             passphrase |-> passphrase])
       IN  IF ~Truthy(passphrase) THEN HandleNext
           ELSE IF passphrase # confirmPassphrase
               THEN /\ step4Error' = ErrorMatch
                    /\ UNCHANGED <<step, keyType, keySize, outputFormat,
                                   passphrase, localStorage, step3Error,
                                   confirmPassphrase, step5Error>>
           ELSE IF ~validation.isValid
               THEN /\ step4Error' = validation.message
                    /\ UNCHANGED <<step, keyType, keySize, outputFormat,
                                   passphrase, localStorage, step3Error,
                                   confirmPassphrase, step5Error>>
           ELSE HandleNext
    /\ UNCHANGED genVars
    /\ UNCHANGED outsideApp

\* variant: the double click advances without looking at the confirmation
Step4DoubleClick_Unconfirmed ==
    /\ NoMicrotask
    /\ step = 4
    /\ IF \/ ~Truthy(passphrase)
          \/ ValidatePassphrase([outputFormat |-> outputFormat,
                                 passphrase |-> passphrase]).isValid
           THEN HandleNext
       ELSE /\ step4Error' = ErrorLength
            /\ UNCHANGED <<step, keyType, keySize, outputFormat,
                           passphrase, localStorage, step3Error,
                           confirmPassphrase, step5Error>>
    /\ UNCHANGED genVars
    /\ UNCHANGED outsideApp

\* Step4: onDoubleClick of the passphrase input and of the confirmation input
Step4DoubleClick ==
    /\ NoMicrotask
    /\ step = 4
    /\ IF \/ ~Truthy(passphrase)
          \/ /\ passphrase = confirmPassphrase
             /\ ValidatePassphrase([outputFormat |-> outputFormat,
                                    passphrase |-> passphrase]).isValid
           THEN HandleNext
       ELSE IF passphrase # confirmPassphrase
           THEN /\ step4Error' = ErrorMatch
                /\ UNCHANGED <<step, keyType, keySize, outputFormat,
                               passphrase, localStorage, step3Error,
                               confirmPassphrase, step5Error>>
       ELSE /\ step4Error' = ErrorLength
            /\ UNCHANGED <<step, keyType, keySize, outputFormat,
                           passphrase, localStorage, step3Error,
                           confirmPassphrase, step5Error>>
    /\ UNCHANGED genVars
    /\ UNCHANGED outsideApp

\* the Reset State button of the debug panel
ResetState ==
    /\ NoMicrotask
    /\ step' = 1
    /\ keyType' = ""
    /\ keySize' = EmptyStr
    /\ outputFormat' = ""
    /\ passphrase' = EmptyStr
    /\ localStorage' = Persisted(1, "", EmptyStr, "", EmptyStr)
    /\ IF step = 1
        THEN UNCHANGED <<step3Error, confirmPassphrase, step4Error, step5Error>>
        ELSE StepLocalReset
    /\ UNCHANGED genVars
    /\ UNCHANGED outsideApp

GenerateFns == {"generateRSAKeyPair", "generateECDSAKeyPair",
                "generateEdDSAKeyPair"}

Primitives == {SubtleGenerateKey, OpenpgpGenerateKey}

\* the catch and finally blocks of App.handleGenerate
HandleGenerateCatch ==
    /\ generatedKeys' = Null
    /\ showResults' = FALSE
    /\ isGenerating' = FALSE

\* App.handleGenerate up to its first await.  trace holds the calls made so
\* far by the event handler that called it.
HandleGenerate(trace) ==
    LET params     == CurParams
        validation == ValidateAll(params)
        trace1     == Append(trace, "validateAll")
        fn         == CASE keyType = "rsa"   -> "generateRSAKeyPair"
                        [] keyType = "ecdsa" -> "generateECDSAKeyPair"
                        [] keyType = "eddsa" -> "generateEdDSAKeyPair"
                        [] OTHER             -> "none"
        \* generate*KeyPair(Number(keySize)): the argument is a number
        arg        == DestructureNumber
        gen        == CASE keyType = "rsa"   -> GenerateRSAKeyPair(arg)
                        [] keyType = "ecdsa" -> GenerateECDSAKeyPair(arg)
                        [] keyType = "eddsa" -> GenerateEdDSAKeyPair(arg)
                        [] OTHER             -> Threw("Invalid key type")
    IN  IF ~validation.isValid
            THEN \* throw new Error(validation.message)
                 /\ HandleGenerateCatch
                 /\ lastTrace' = trace1
                 /\ UNCHANGED <<pending, genCalls, primCalls>>
        ELSE IF fn = "none"
            THEN \* throw new Error('Invalid key type')
                 /\ HandleGenerateCatch
                 /\ lastTrace' = trace1
                 /\ UNCHANGED <<pending, genCalls, primCalls>>
        ELSE /\ isGenerating' = TRUE
             /\ genCalls' = genCalls + 1
             /\ primCalls' = IF gen.threw THEN primCalls ELSE primCalls + 1
             /\ lastTrace' = IF gen.threw
                                THEN Append(trace1, fn)
                                ELSE Append(Append(trace1, fn), gen.primitive)
             /\ pending' = Append(pending,
                                  [ready  |-> gen.threw,
                                   params |-> params,
                                   gen    |-> gen])
             /\ UNCHANGED <<generatedKeys, showResults>>

\* Step5.handleGenerate: the Generate button (disabled while isGenerating) and
\* the double click on the summary panel
Step5Generate ==
    /\ NoMicrotask
    /\ step = 5
    /\ attempts < MaxRequests
    /\ \E via \in {"button", "doubleClick"} :
        /\ via = "button" => ~isGenerating
        /\ attempts' = attempts + 1
        /\ LET validation == ValidateAll(CurParams)
           IN  IF ~validation.isValid
                   THEN /\ step5Error' = validation.message
                        /\ lastTrace' = <<"validateAll">>
                        /\ UNCHANGED <<isGenerating, generatedKeys, showResults,
                                       pending, genCalls, primCalls>>
                   ELSE /\ step5Error' = ""
                        /\ HandleGenerate(<<"validateAll">>)
    /\ UNCHANGED <<step, keyType, keySize, outputFormat, passphrase, localStorage>>
    /\ UNCHANGED <<step3Error, confirmPassphrase, step4Error, appError>>
    /\ UNCHANGED outsideApp

\* App.handleGenerate after the await of generate*KeyPair.  A rejected
\* promise is rethrown into the catch block.  With a key pair the switch on
\* the output format calls convertToPEM / convertToJWK / convertToSSH /
\* convertToOpenPGP, none of which crypto.js exports: the call of undefined
\* is a TypeError; an unknown format throws 'Invalid output format'.  Every
\* path ends in the catch and finally blocks.
ResumeGenerate ==
    /\ pending # <<>>
    /\ LET k == Head(pending)
           convert == CASE k.params.outputFormat = "pem" -> "convertToPEM"
                        [] k.params.outputFormat = "jwk" -> "convertToJWK"
                        [] k.params.outputFormat = "ssh" -> "convertToSSH"
                        [] k.params.outputFormat = "pgp" -> "convertToOpenPGP"
                        [] OTHER -> "none"
           \* the await rethrows, or the conversion call throws
           thrown == IF k.gen.threw THEN TRUE ELSE convert \notin CryptoExports
       IN  /\ thrown
           /\ HandleGenerateCatch
    /\ pending' = Tail(pending)
    /\ UNCHANGED <<attempts, genCalls, primCalls, lastTrace, appError>>
    /\ UNCHANGED <<step, keyType, keySize, outputFormat, passphrase, localStorage>>
    /\ UNCHANGED <<step3Error, confirmPassphrase, step4Error, step5Error>>
    /\ UNCHANGED outsideApp

Next ==
    \/ Step1Select
    \/ Step2Select
    \/ Step3Select
    \/ HandleBack
    \/ Step4TypePassphrase
    \/ Step4TypeConfirm
    \/ Step4Next
    \/ Step4DoubleClick
    \/ Step5Generate
    \/ ResumeGenerate
    \/ ResetState

Spec == Init /\ [][Next]_vars

----------------------------------------------------------------------------
(* The single-page variant of the App (src/index.html.taihi): the wizard,    *)
(* the generators and the format conversion in one component.                *)

\* getKeySizes
HtmlGetKeySizes(kt) ==
    CASE kt = "rsa"   -> {S2048, S3072, S4096}
      [] kt = "ecdsa" -> {SP256, SP384}
      [] kt = "eddsa" -> {SEd25519, SEd448}
      [] OTHER        -> {}

\* getOutputFormats
HtmlGetOutputFormats(kt, ks) ==
    {"pem", "jwk"}
        \cup (IF kt \in {"rsa", "ecdsa"} \/ (kt = "eddsa" /\ ks = SEd25519)
                THEN {"ssh"} ELSE {})
        \cup {"pgp"}

\* the key sizes the user clicks on, among those offered
HtmlClickedKeySizes == {S2048, SP256, SEd25519, SEd448}

\* what the user types into the passphrase input
HtmlTypedPassphrases == {EmptyStr, Rep("p", MinPassphraseLen)}

MsgHtmlGenerateFailed == "Kagi no seisei chuu ni error ga hassei shimashita: "

MsgHtmlKeyType == "Fusei na angou houshiki ga sentaku saremashita."

MsgHtmlFormat == "Fusei na shutsuryoku keishiki ga sentaku saremashita."

MsgNotCryptoKey == "TypeError: parameter 2 is not of type 'CryptoKey'"

\* the template string of the catch block; '' is the empty sequence
HtmlErrorText(msg) == <<MsgHtmlGenerateFailed, msg>>

\* const metadata = { type, size, format, generated, hasPassphrase }; the
\* timestamp is left out
HtmlMetadata(p) ==
    [type |-> p.keyType, size |-> p.keySize, format |-> p.outputFormat,
     hasPassphrase |-> Truthy(p.passphrase)]

\* formatKeys on the key pair of the request p.  The pair of an EdDSA request
\* is an OpenPGP key object, which crypto.subtle.exportKey rejects; every
\* other library call returns when ok and throws otherwise.  m is the key
\* material of the key the result encodes.
HtmlFormatKeys(p, m, ok) ==
    CASE p.outputFormat \in {"pem", "jwk"} /\ p.keyType = "eddsa" ->
            Threw(MsgNotCryptoKey)
      [] p.outputFormat \notin {"pem", "jwk", "ssh", "pgp"} ->
            Threw(MsgHtmlFormat)
      [] ~ok -> Threw(MsgLibrary)
      [] p.outputFormat = "pem" ->
            Returned(KeyOut("pem", "PUBLIC KEY", m, FALSE, EmptyStr),
                     IF Truthy(p.passphrase)
                        THEN KeyOut("pem", "ENCRYPTED PRIVATE KEY", m, TRUE,
                                    p.passphrase)
                        ELSE KeyOut("pem", "RSA PRIVATE KEY", m, FALSE, EmptyStr))
      [] p.outputFormat = "jwk" ->
            Returned(KeyOut("jwk", "public", m, FALSE, EmptyStr),
                     KeyOut("jwk", "private", m, FALSE, EmptyStr))
      [] p.outputFormat = "ssh" ->
            Returned(KeyOut("openssh", "ssh-rsa", m, FALSE, EmptyStr),
                     PrivateKeyToOpenSSHResult(m, p.passphrase))
      [] OTHER ->
            Returned(ArmoredKeyPair(m, p.passphrase).publicKey,
                     ArmoredKeyPair(m, p.passphrase).privateKey)

HtmlParams == Params(hKeyType, hKeySize, hOutputFormat, hPassphrase)

InitHtml ==
    /\ vparams = Params("", EmptyStr, "", EmptyStr)
    /\ vresult = NoResult
    /\ AppInitFrom(FreshStorage)
    /\ cparams = [keySize |-> EmptyStr, outputFormat |-> ""]
    /\ ccall = NoCall
    /\ cprev = NoCall
    /\ HtmlInit
    /\ MetadataIdle

HtmlUnchangedOthers ==
    /\ UNCHANGED appVars
    /\ UNCHANGED harnessVars
    /\ UNCHANGED cryptoVars
    /\ UNCHANGED metadataVars

\* Step1: a click on a key type selects it and shows Step2
HtmlStep1Select ==
    /\ hStep = 1
    /\ \E kt \in KeyTypeOptions : hKeyType' = kt
    /\ hStep' = 2
    /\ UNCHANGED <<hKeySize, hOutputFormat, hPassphrase, hGeneratedKeys,
                   hIsGenerating, hError, hPending>>
    /\ HtmlUnchangedOthers

\* Step2: a click on a key size selects it and shows Step3
HtmlStep2Select ==
    /\ hStep = 2
    /\ \E ks \in HtmlGetKeySizes(hKeyType) \cap HtmlClickedKeySizes :
        hKeySize' = ks
    /\ hStep' = 3
    /\ UNCHANGED <<hKeyType, hOutputFormat, hPassphrase, hGeneratedKeys,
                   hIsGenerating, hError, hPending>>
    /\ HtmlUnchangedOthers

\* Step3: a click on an output format selects it and shows Step4
HtmlStep3Select ==
    /\ hStep = 3
    /\ \E of \in HtmlGetOutputFormats(hKeyType, hKeySize) : hOutputFormat' = of
    /\ hStep' = 4
    /\ UNCHANGED <<hKeyType, hKeySize, hPassphrase, hGeneratedKeys,
                   hIsGenerating, hError, hPending>>
    /\ HtmlUnchangedOthers

\* Step4: typing into the passphrase input
HtmlStep4Type ==
    /\ hStep = 4
    /\ \E value \in HtmlTypedPassphrases : hPassphrase' = value
    /\ UNCHANGED <<hStep, hKeyType, hKeySize, hOutputFormat, hGeneratedKeys,
                   hIsGenerating, hError, hPending>>
    /\ HtmlUnchangedOthers

\* Step4: the Next button
HtmlStep4Next ==
    /\ hStep = 4
    /\ hStep' = 5
    /\ UNCHANGED <<hKeyType, hKeySize, hOutputFormat, hPassphrase,
                   hGeneratedKeys, hIsGenerating, hError, hPending>>
    /\ HtmlUnchangedOthers

\* the Back button of Step2 .. Step5
HtmlBack ==
    /\ hStep \in 2..5
    /\ hStep' = hStep - 1
    /\ UNCHANGED <<hKeyType, hKeySize, hOutputFormat, hPassphrase,
                   hGeneratedKeys, hIsGenerating, hError, hPending>>
    /\ HtmlUnchangedOthers

\* generateKeyPair up to its first await, from the Generate button of Step5
\* (disabled while isGenerating): the state values of the current render are
\* what the run works with
HtmlGenerateKeyPair ==
    /\ hStep = 5
    /\ ~hIsGenerating
    /\ IF hKeyType \notin {"rsa", "ecdsa", "eddsa"}
        THEN /\ hError' = HtmlErrorText(MsgHtmlKeyType)
             /\ hIsGenerating' = FALSE
             /\ UNCHANGED hPending
        ELSE /\ hError' = <<>>
             /\ hIsGenerating' = TRUE
             /\ hPending' = <<HtmlParams>>
    /\ UNCHANGED <<hStep, hKeyType, hKeySize, hOutputFormat, hPassphrase,
                   hGeneratedKeys>>
    /\ HtmlUnchangedOthers

\* generateKeyPair from the await of the generator to its end: the generation
\* primitive resolves and formatKeys returns, then setGeneratedKeys
HtmlGenerateFulfilled ==
    /\ hPending # <<>>
    /\ \E m \in Materials :
        LET p == Head(hPending)
            formattedKeys == HtmlFormatKeys(p, m, TRUE)
        IN  /\ ~formattedKeys.threw
            /\ hGeneratedKeys' = [publicKey  |-> formattedKeys.publicKey,
                                  privateKey |-> formattedKeys.privateKey,
                                  metadata   |-> HtmlMetadata(p)]
    /\ hIsGenerating' = FALSE
    /\ hPending' = <<>>
    /\ UNCHANGED <<hStep, hKeyType, hKeySize, hOutputFormat, hPassphrase, hError>>
    /\ HtmlUnchangedOthers

\* generateKeyPair from the await of the generator to its end: the generation
\* primitive rejects, or formatKeys throws; the catch block sets the error
HtmlGenerateRejected ==
    /\ hPending # <<>>
    /\ \E generated \in BOOLEAN :
        LET p == Head(hPending)
            formattedKeys == HtmlFormatKeys(p, "none", FALSE)
        IN  hError' = HtmlErrorText(IF generated THEN formattedKeys.message
                                                 ELSE MsgLibrary)
    /\ hIsGenerating' = FALSE
    /\ hPending' = <<>>
    /\ UNCHANGED <<hStep, hKeyType, hKeySize, hOutputFormat, hPassphrase,
                   hGeneratedKeys>>
    /\ HtmlUnchangedOthers

NextHtml ==
    \/ HtmlStep1Select
    \/ HtmlStep2Select
    \/ HtmlStep3Select
    \/ HtmlStep4Type
    \/ HtmlStep4Next
    \/ HtmlBack
    \/ HtmlGenerateKeyPair
    \/ HtmlGenerateFulfilled
    \/ HtmlGenerateRejected

SpecHtml == InitHtml /\ [][NextHtml]_vars

----------------------------------------------------------------------------
(* Properties of the wizard, checked under Spec *)

\* the tuples that pass the three checks validateAll is made of
Accepted(p) ==
    /\ ValidateCryptoParams(p).isValid
    /\ ValidateOutputFormat(p).isValid
    /\ ValidatePassphrase(p).isValid

\* in the calls of one run of the generate handler, every generate*KeyPair
\* call and every primitive call comes after a validateAll call
ValidatedFirst(trace) ==
    \A i \in 1..Len(trace) :
        trace[i] \in GenerateFns \cup Primitives
            => \E j \in 1..(i - 1) : trace[j] = "validateAll"

\* C1: in the generation path of the wizard (Step5.handleGenerate, then
\* App.handleGenerate) validateAll is evaluated before any key generation,
\* and while the selected tuple (keyType, keySize, outputFormat, passphrase)
\* is one that the validator rejects, no step invokes a generate*KeyPair
\* function or a key-generation primitive.
C1_NoGenerationWhenRejected ==
    /\ [] ValidatedFirst(lastTrace)
    /\ [][~Accepted(CurParams)
            => (genCalls' = genCalls /\ primCalls' = primCalls)]_vars

C1_Witness ==
    /\ step = 5
    /\ attempts > 0
    /\ ~Accepted(CurParams)
    /\ step5Error # ""
    /\ lastTrace = <<"validateAll">>
    /\ genCalls = 0
    /\ primCalls = 0
    /\ generatedKeys = Null

----------------------------------------------------------------------------
(* Properties of the validator, checked under SpecValidate *)

RsaSizeStrings == {S2048, S3072, S4096}

EdDSACurves == {SEd25519, SEd448}

KnownFormats == {"pem", "jwk", "ssh", "pgp"}

\* the messages whose text names Ed25519
NamesEd25519(msg) == msg \in {MsgSshEd25519Only, MsgSshFormat}

\* the messages whose text names P-256/P-384
NamesEcdsaCurves(msg) == msg = MsgEcdsaCurve

\* C2: for keyType 'rsa', validateCryptoParams and validateAll return
\* isValid=false with the RSA key-size message for every keySize whose value
\* (the number the string denotes) is outside {2048, 3072, 4096}, and
\* isValid=true for every keySize inside the set when output format and
\* passphrase are a valid combination.
C2_RsaKeySizeRule ==
    (vresult.called /\ vparams.keyType = "rsa") =>
        IF ~IncludesNum(RsaKeySizes, ToNumber(vparams.keySize))
            THEN /\ vresult.crypto = Invalid(MsgRsaKeySize)
                 /\ vresult.all = Invalid(MsgRsaKeySize)
            ELSE /\ vresult.crypto.isValid
                 /\ (vparams.outputFormat \in KnownFormats
                        /\ vresult.passphrase.isValid) => vresult.all.isValid

\* C3 (as claimed): for keyType 'ecdsa', validateCryptoParams and validateAll
\* return isValid=false with a message naming P-256/P-384 for every keySize
\* other than 'P-256' and 'P-384', and isValid=true for those two curves.
C3_EcdsaCurveRule_Claimed ==
    (vresult.called /\ vparams.keyType = "ecdsa") =>
        IF vparams.keySize \notin {SP256, SP384}
            THEN /\ ~vresult.crypto.isValid
                 /\ NamesEcdsaCurves(vresult.crypto.message)
                 /\ ~vresult.all.isValid
                 /\ NamesEcdsaCurves(vresult.all.message)
            ELSE /\ vresult.crypto.isValid
                 /\ vresult.all.isValid

\* C3 (amended): for keyType 'ecdsa', validateCryptoParams and validateAll
\* return isValid=false with a message naming P-256/P-384 for every keySize
\* other than 'P-256' and 'P-384'; for those two curves validateCryptoParams
\* returns isValid=true, and validateAll returns isValid=true when the
\* passphrase passes validatePassphrase for the output format.
C3_EcdsaCurveRule ==
    (vresult.called /\ vparams.keyType = "ecdsa") =>
        IF vparams.keySize \notin {SP256, SP384}
            THEN /\ ~vresult.crypto.isValid
                 /\ NamesEcdsaCurves(vresult.crypto.message)
                 /\ ~vresult.all.isValid
                 /\ NamesEcdsaCurves(vresult.all.message)
            ELSE /\ vresult.crypto.isValid
                 /\ vresult.passphrase.isValid => vresult.all.isValid

C3_Witness ==
    /\ vresult.called
    /\ vparams.keyType = "ecdsa"
    /\ vparams.keySize = SP384
    /\ vparams.outputFormat = "pgp"
    /\ Len(vparams.passphrase) = MinPassphraseLen
    /\ vresult.all.isValid

\* C4: for outputFormat 'ssh' the validator accepts rsa with a legal size,
\* ecdsa with a legal curve and eddsa with Ed25519, and rejects eddsa with any
\* other curve with a message that names Ed25519; validateCryptoParams and
\* validateOutputFormat both reject eddsa / Ed448 / ssh.
C4_SshRule ==
    (vresult.called /\ vparams.outputFormat = "ssh") =>
        /\ (vparams.keyType = "rsa" /\ vparams.keySize \in RsaSizeStrings)
                => vresult.all.isValid
        /\ (vparams.keyType = "ecdsa" /\ vparams.keySize \in EcdsaCurves)
                => vresult.all.isValid
        /\ (vparams.keyType = "eddsa" /\ vparams.keySize = SEd25519)
                => vresult.all.isValid
        /\ (vparams.keyType = "eddsa" /\ vparams.keySize # SEd25519)
                => /\ ~vresult.all.isValid
                   /\ NamesEd25519(vresult.all.message)
                   /\ ~vresult.crypto.isValid
                   /\ NamesEd25519(vresult.crypto.message)
                   /\ ~vresult.format.isValid
                   /\ NamesEd25519(vresult.format.message)

C4_Witness ==
    /\ vresult.called
    /\ vparams.keyType = "eddsa"
    /\ vparams.keySize = SEd448
    /\ vparams.outputFormat = "ssh"
    /\ ~vresult.crypto.isValid
    /\ ~vresult.format.isValid

\* C5: validateAll returns isValid=false for every request with scheme EdDSA
\* and output format JWK, for both curves and every passphrase.
C5_EdDSAJwkRejected ==
    (vresult.called /\ vparams.keyType = "eddsa"
        /\ vparams.keySize \in EdDSACurves /\ vparams.outputFormat = "jwk")
        => ~vresult.all.isValid

\* C6: validateAll returns isValid=false for every request with keyType
\* 'eddsa' whose keySize is not 'Ed25519' or 'Ed448', whatever the output
\* format (pem, jwk, ssh or pgp).
C6_EdDSACurveRule ==
    (vresult.called /\ vparams.keyType = "eddsa"
        /\ vparams.keySize \notin EdDSACurves
        /\ vparams.outputFormat \in KnownFormats)
        => ~vresult.all.isValid

\* C7: validateAll returns isValid=false for every request whose outputFormat
\* is not one of pem, jwk, ssh, pgp (the empty format included), for every
\* keyType and keySize.
C7_UnknownFormatRejected ==
    (vresult.called /\ vparams.outputFormat \notin KnownFormats)
        => ~vresult.all.isValid

\* C8: for output format pem or pgp, validatePassphrase rejects every
\* non-empty passphrase of length 1..7 with the 8-character message and
\* accepts every passphrase of length 8 or more; the empty passphrase is
\* accepted for every output format.
C8_PassphraseLength ==
    vresult.called =>
        /\ (vparams.outputFormat \in {"pem", "pgp"}
                /\ Len(vparams.passphrase) \in 1..7)
                => vresult.passphrase = Invalid(MsgPassphraseLen)
        /\ (vparams.outputFormat \in {"pem", "pgp"}
                /\ Len(vparams.passphrase) >= 8)
                => vresult.passphrase.isValid
        /\ (vparams.passphrase = EmptyStr) => vresult.passphrase.isValid

C8_Witness ==
    /\ vresult.called
    /\ vparams.outputFormat = "pgp"
    /\ Len(vparams.passphrase) = 8
    /\ vresult.passphrase.isValid
    /\ vparams.keyType = "rsa"
    /\ vparams.keySize = S2048

\* C9: validateAll returns isValid=true exactly when validateCryptoParams,
\* validateOutputFormat and validatePassphrase all return valid; otherwise it
\* returns the result (with its message) of the first failing check in the
\* order crypto parameters, output format, passphrase.
C9_FirstFailingCheck ==
    vresult.called =>
        /\ vresult.all.isValid <=> (/\ vresult.crypto.isValid
                                    /\ vresult.format.isValid
                                    /\ vresult.passphrase.isValid)
        /\ ~vresult.crypto.isValid => vresult.all = vresult.crypto
        /\ (vresult.crypto.isValid /\ ~vresult.format.isValid)
                => vresult.all = vresult.format
        /\ (vresult.crypto.isValid /\ vresult.format.isValid
                /\ ~vresult.passphrase.isValid)
                => vresult.all = vresult.passphrase

C9_Witness ==
    /\ vresult.called
    /\ ~vresult.crypto.isValid
    /\ ~vresult.format.isValid
    /\ vresult.crypto.message # vresult.format.message
    /\ vresult.all = vresult.crypto

\* a result value of a validator: isValid is a Boolean, and a rejection
\* carries a non-empty message
IsValidationResult(r) ==
    /\ "isValid" \in DOMAIN r
    /\ r.isValid \in BOOLEAN
    /\ ~r.isValid => ("message" \in DOMAIN r /\ r.message # "")

\* C10: for every combination of keyType, keySize, outputFormat and
\* passphrase strings each of the four validators returns a result value, and
\* every result with isValid=false carries a non-empty message.
C10_StructuredRejection ==
    vresult.called =>
        /\ IsValidationResult(vresult.crypto)
        /\ IsValidationResult(vresult.format)
        /\ IsValidationResult(vresult.passphrase)
        /\ IsValidationResult(vresult.all)

C10_Witness ==
    /\ vresult.called
    /\ vresult.crypto.isValid
    /\ vresult.format.isValid
    /\ ~vresult.passphrase.isValid
    /\ ~vresult.all.isValid
    /\ vresult.all.message # ""

----------------------------------------------------------------------------
(* Properties of the generators of crypto.js, checked under SpecCrypto *)

\* number of times a library function occurs in a sequence of calls
Count(calls, name) == Cardinality({i \in 1..Len(calls) : calls[i] = name})

\* the errors of the entry checks: size, curve and format
EntryErrors == {MsgGenRsaKeySize, MsgGenFormat, MsgGenEcdsaCurve,
                MsgGenEdDSACurve, MsgGenEdDSAFormat}

RejectedAtEntry(call) ==
    call.outcome.threw /\ call.outcome.message \in EntryErrors

\* one generation primitive, invoked once, and the one the scheme and the
\* format call for
DispatchedOnce(call) ==
    LET native  == Count(call.calls, SubtleGenerateKey)
        openpgp == Count(call.calls, OpenpgpGenerateKey)
    IN  /\ native + openpgp = 1
        /\ openpgp = 1 <=> (\/ call.fn = "generateEdDSAKeyPair"
                            \/ call.arg.outputFormat = "pgp")
        /\ (/\ call.fn \in {"generateRSAKeyPair", "generateECDSAKeyPair"}
            /\ call.arg.outputFormat \in {"pem", "jwk", "ssh"})
                => (native = 1 /\ openpgp = 0)

\* C11 (as claimed): for each request exactly one generation primitive is
\* invoked exactly once, and it is openpgp.generateKey if and only if the
\* scheme is EdDSA or the output format is pgp; for RSA and ECDSA with pem,
\* jwk or ssh it is crypto.subtle.generateKey and openpgp.generateKey is not
\* invoked.
C11_DispatchOnFormat_Claimed ==
    ccall.called => DispatchedOnce(ccall)

\* C11 (amended): the same, for each request that the generator does not
\* reject in its entry checks of size, curve and format; a request rejected
\* there invokes no generation primitive.
C11_DispatchOnFormat ==
    ccall.called =>
        IF RejectedAtEntry(ccall)
            THEN /\ Count(ccall.calls, SubtleGenerateKey) = 0
                 /\ Count(ccall.calls, OpenpgpGenerateKey) = 0
            ELSE DispatchedOnce(ccall)

C11_Witness ==
    /\ ccall.called
    /\ ccall.fn = "generateRSAKeyPair"
    /\ ccall.arg.outputFormat = "pgp"
    /\ ~ccall.outcome.threw
    /\ ccall.calls = <<OpenpgpGenerateKey>>
    /\ cprev.called
    /\ cprev.fn = "generateECDSAKeyPair"
    /\ RejectedAtEntry(cprev)

\* C12: generateEdDSAKeyPair with output format jwk ends in the format error
\* for Ed25519 and for Ed448, without having invoked openpgp.generateKey (or
\* any other library function), and returns no key pair.
C12_EdDSAJwkFormatError ==
    (/\ ccall.called
     /\ ccall.fn = "generateEdDSAKeyPair"
     /\ ccall.arg.keySize \in {SEd25519, SEd448}
     /\ ccall.arg.outputFormat = "jwk")
        => /\ ccall.outcome = Threw(MsgGenEdDSAFormat)
           /\ ccall.calls = <<>>

C12_Witness ==
    /\ ccall.called
    /\ ccall.fn = "generateEdDSAKeyPair"
    /\ ccall.arg.keySize = SEd448
    /\ ccall.arg.outputFormat = "jwk"
    /\ Truthy(ccall.arg.passphrase)
    /\ ccall.outcome.threw
    /\ cprev.called
    /\ cprev.fn = "generateEdDSAKeyPair"

C14_PublicKeyIgnoresPassphrase ==
    (/\ ccall.called
     /\ cprev.called
     /\ ~ccall.outcome.threw
     /\ ~cprev.outcome.threw
     /\ ccall.fn = cprev.fn
     /\ ccall.arg.keySize = cprev.arg.keySize
     /\ ccall.arg.outputFormat = cprev.arg.outputFormat
     /\ ccall.material = cprev.material)
        => ccall.outcome.publicKey = cprev.outcome.publicKey

C14_Witness ==
    /\ ccall.called
    /\ cprev.called
    /\ ~ccall.outcome.threw
    /\ ~cprev.outcome.threw
    /\ ccall.fn = "generateRSAKeyPair"
    /\ cprev.fn = "generateRSAKeyPair"
    /\ ccall.arg.outputFormat = "ssh"
    /\ ccall.material = cprev.material
    /\ ccall.arg.passphrase # cprev.arg.passphrase
    /\ ccall.outcome.privateKey # cprev.outcome.privateKey
    /\ ccall.outcome.publicKey = cprev.outcome.publicKey

----------------------------------------------------------------------------
(* Properties of the App variants' generation handlers *)

\* C15: after a generation request that fails, the application holds no
\* generated keys and no metadata, also when an earlier request of the session
\* had succeeded.  Stated for generateKeyPair of the single-page variant,
\* where the error message is set by the failed run and cleared when the next
\* run starts: while it is set, generatedKeys is null.
C15_NoKeysAfterFailure ==
    (hError # <<>> /\ ~hIsGenerating) => hGeneratedKeys = Null

\* the error message the mounted step component shows; App itself has no
\* error state
PresentedError ==
    CASE step = 3 -> step3Error
      [] step = 4 -> step4Error
      [] step = 5 -> step5Error
      [] OTHER    -> ""

\* a run of App.handleGenerate that had reached generation ends in its catch
\* block
GenerationFails ==
    /\ pending # <<>>
    /\ pending' = Tail(pending)
    /\ generatedKeys' = Null

\* the requests validateAll accepts with a scheme, a size or curve of the
\* scheme and a format the generator of the scheme supports
SupportedRequest(p) ==
    /\ ValidateAll(p).isValid
    /\ p.keySize \in KeySizeOptions(p.keyType)
    /\ \/ p.keyType \in {"rsa", "ecdsa"} /\ p.outputFormat \in KnownFormats
       \/ p.keyType = "eddsa" /\ p.outputFormat \in {"pem", "ssh", "pgp"}

\* a primitive was invoked by the run and failed
PrimitiveFailed(k) == k.gen.threw /\ k.gen.message = MsgLibrary

\* C16: when App.handleGenerate ends in a failure of generation or
\* conversion, the application then holds a non-empty error message that is
\* presented to the user.
C16_FailureIsReported ==
    [][GenerationFails => PresentedError' # ""]_vars

\* C17: for every request that validateAll accepts with a scheme in {rsa,
\* ecdsa, eddsa} and a format supported for the scheme, when no primitive
\* fails App.handleGenerate ends with generatedKeys holding a public key, a
\* private key and metadata and with showResults = true.
C17_AcceptedRequestYieldsKeys ==
    [][(/\ pending # <<>>
        /\ pending' = Tail(pending)
        /\ SupportedRequest(Head(pending).params)
        /\ ~PrimitiveFailed(Head(pending)))
            => (generatedKeys' # Null /\ showResults')]_vars

\* C18: once an option is selected in step 1, 2 or 3 the user can advance to
\* the next step, so that step 5 can be reached from step 1 by selecting a
\* scheme, a size and a format.
C18_CanAdvanceAfterSelection ==
    /\ (step = 1 /\ keyType # "" /\ NoMicrotask)
            => ENABLED (Next /\ step' = 2)
    /\ (step = 2 /\ keySize # EmptyStr /\ NoMicrotask)
            => ENABLED (Next /\ step' = 3)
    /\ (step = 3 /\ outputFormat # "" /\ NoMicrotask)
            => ENABLED (Next /\ step' = 4)

----------------------------------------------------------------------------
(* src/src/utils/metadata.js: createMetadata and the three sub-records.    *)
(* Every call builds its record and its arrays from literals; the module   *)
(* keeps no state of its own, and the only thing a call reads besides its  *)
(* parameters is the clock (new Date()).  Arrays are sequences, the        *)
(* Japanese texts are ASCII transliterations.                              *)

SInvalid == <<"i", "n", "v", "a", "l", "i", "d">>

BitsP256 == 128
BitsP384 == 192
BitsEd25519 == 128
BitsEd448 == 224

\* getSecurityInfo(keyType, keySize): the switch has no default case
GetSecurityInfo(kt, ks) ==
    LET info == [bitStrength |-> Num(0), recommendation |-> "",
                 standards |-> <<>>]
    IN  CASE kt = "rsa" ->
               [info EXCEPT
                  !.bitStrength = ParseInt(ks),
                  !.standards = <<"PKCS#1", "FIPS 186-4">>,
                  !.recommendation =
                      IF ks = S2048 THEN "ippanteki na youto ni tekishite imasu (-2030)"
                      ELSE IF ks = S3072 THEN "chouki hozon ni tekishite imasu (-2040)"
                      ELSE IF ks = S4096 THEN "saikou level no security wo teikyou shimasu"
                      ELSE @]
          [] kt = "ecdsa" ->
               LET std == [info EXCEPT !.standards =
                              <<"NIST FIPS 186-4", "RFC 8422", "SEC 2">>]
               IN  IF ks = SP256
                     THEN [std EXCEPT !.bitStrength = Num(BitsP256),
                                      !.recommendation = "TLS/SSL ni saiteki desu (-2030)"]
                   ELSE IF ks = SP384
                     THEN [std EXCEPT !.bitStrength = Num(BitsP384),
                                      !.recommendation = "seifu system ni suishou saremasu"]
                   ELSE std
          [] kt = "eddsa" ->
               LET std == [info EXCEPT !.standards = <<"RFC 8032">>]
               IN  IF ks = SEd25519
                     THEN [std EXCEPT !.bitStrength = Num(BitsEd25519),
                                      !.recommendation = "SSH ya blockchain ni saiteki desu"]
                   ELSE IF ks = SEd448
                     THEN [std EXCEPT !.bitStrength = Num(BitsEd448),
                                      !.recommendation = "choukiteki na security ga hitsuyou na baai ni suishou"]
                   ELSE std
          [] OTHER -> info

\* getUsageInfo(keyType, outputFormat): the key type sets the flags and
\* assigns a new array, then the format pushes one more entry onto it
GetUsageInfo(kt, fmt) ==
    LET usage == [signing |-> FALSE, encryption |-> FALSE,
                  keyExchange |-> FALSE, authentication |-> FALSE,
                  recommended |-> <<>>]
        byType ==
            CASE kt = "rsa" ->
                   [usage EXCEPT !.signing = TRUE, !.encryption = TRUE,
                                 !.keyExchange = TRUE,
                                 !.authentication = TRUE,
                                 !.recommended = <<"TLS shoumeisho", "mail angouka", "file angouka">>]
              [] kt = "ecdsa" ->
                   [usage EXCEPT !.signing = TRUE, !.authentication = TRUE,
                                 !.recommended = <<"TLS shoumeisho", "blockchain shomei">>]
              [] kt = "eddsa" ->
                   [usage EXCEPT !.signing = TRUE, !.authentication = TRUE,
                                 !.recommended = <<"SSH ninshou", "blockchain shomei">>]
              [] OTHER -> usage
    IN  CASE fmt = "pem" ->
               [byType EXCEPT !.recommended = Append(@, "OpenSSL sousa")]
          [] fmt = "ssh" ->
               [byType EXCEPT !.recommended = Append(@, "SSH server ninshou")]
          [] fmt = "jwk" ->
               [byType EXCEPT !.recommended = Append(@, "Web application")]
          [] fmt = "pgp" ->
               [byType EXCEPT !.recommended = Append(@, "mail angouka")]
          [] OTHER -> byType

\* getCompatibilityInfo(keyType, outputFormat)
GetCompatibilityInfo(kt, fmt) ==
    LET libraries == <<"OpenSSL", "Web Crypto API", "Node.js Crypto",
                       "Bouncy Castle">>
    IN  [browsers  |-> <<"Chrome 69+", "Firefox 60+", "Safari 12.1+",
                         "Edge 79+">>,
         tools     |-> CASE fmt = "pem" -> <<"OpenSSL", "GnuPG", "Keytool">>
                         [] fmt = "ssh" -> <<"OpenSSH", "PuTTY">>
                         [] fmt = "jwk" -> <<"Web Crypto API", "Node.js Crypto">>
                         [] fmt = "pgp" -> <<"GnuPG", "Mailvelope", "Enigmail">>
                         [] OTHER -> <<>>,
         libraries |-> IF kt = "eddsa" THEN Append(libraries, "libsodium")
                       ELSE libraries]

\* new Date().toISOString(): the text of the instant the clock shows
ToISOString(t) == <<"ISO", t>>

\* a call that returns the record rec
MetadataReturned(rec) == [threw |-> FALSE, value |-> rec]

\* a variant that dates the security assessment: the recommendation is
\* withheld once the clock has moved on
CreateMetadata_DatedSecurity(params, now) ==
    MetadataReturned(
        [type          |-> params.keyType,
         size          |-> params.keySize,
         format        |-> params.outputFormat,
         generated     |-> ToISOString(now),
         hasPassphrase |-> Truthy(params.passphrase),
         security      |-> [GetSecurityInfo(params.keyType, params.keySize)
                               EXCEPT !.recommendation =
                                          IF now > 0 THEN "" ELSE @],
         usage         |-> GetUsageInfo(params.keyType, params.outputFormat),
         compatibility |-> GetCompatibilityInfo(params.keyType,
                                                params.outputFormat)])

\* createMetadata(params) called when the clock shows now: no statement of
\* it throws, whatever the parameters are
CreateMetadata(params, now) ==
    MetadataReturned(
        [type          |-> params.keyType,
         size          |-> params.keySize,
         format        |-> params.outputFormat,
         generated     |-> ToISOString(now),
         hasPassphrase |-> Truthy(params.passphrase),
         security      |-> GetSecurityInfo(params.keyType, params.keySize),
         usage         |-> GetUsageInfo(params.keyType, params.outputFormat),
         compatibility |-> GetCompatibilityInfo(params.keyType,
                                                params.outputFormat)])

----------------------------------------------------------------------------
(* Calls of createMetadata: a caller that holds one parameter record calls *)
(* it any number of times, with calls for other parameters in between,     *)
(* while the clock moves.                                                  *)

\* number of calls in one behaviour
MaxMetadataCalls == 3

\* last instant of the clock
MaxClock == 2

\* the parameters a caller passes: the values the program offers and, for
\* each field, the unknown value of the repository's test
MetadataInputs ==
    [keyType : {"rsa", "ecdsa", "eddsa", "invalid"},
     keySize : {S2048, S4096, SP256, SEd25519, SInvalid},
     outputFormat : {"pem", "jwk", "ssh", "pgp", "invalid"},
     passphrase : {EmptyStr, Rep("p", 8)}]

\* the parameters of the calls made in between
OtherMetadataInputs ==
    {[keyType |-> "rsa", keySize |-> S2048, outputFormat |-> "ssh",
      passphrase |-> EmptyStr],
     [keyType |-> "eddsa", keySize |-> SEd25519, outputFormat |-> "pgp",
      passphrase |-> Rep("p", 8)]}

InitMetadata ==
    /\ vparams = Params("", EmptyStr, "", EmptyStr)
    /\ vresult = NoResult
    /\ AppInitFrom(FreshStorage)
    /\ cparams = [keySize |-> EmptyStr, outputFormat |-> ""]
    /\ ccall = NoCall
    /\ cprev = NoCall
    /\ HtmlInit
    /\ mparams \in MetadataInputs
    /\ mnow = 0
    /\ mlog = <<>>
    /\ fcall = NoCall
    /\ fprev = NoCall

\* createMetadata(params) for the caller's parameters
CallCreateMetadata ==
    /\ Len(mlog) < MaxMetadataCalls
    /\ mlog' = Append(mlog, [params |-> mparams,
                             result |-> CreateMetadata(mparams, mnow)])
    /\ UNCHANGED <<mparams, mnow, fcall, fprev>>
    /\ UNCHANGED <<appVars, harnessVars, cryptoVars, htmlVars>>

\* createMetadata(q) for other parameters
CallCreateMetadataOther ==
    /\ Len(mlog) < MaxMetadataCalls
    /\ \E q \in OtherMetadataInputs \ {mparams} :
          mlog' = Append(mlog, [params |-> q,
                                result |-> CreateMetadata(q, mnow)])
    /\ UNCHANGED <<mparams, mnow, fcall, fprev>>
    /\ UNCHANGED <<appVars, harnessVars, cryptoVars, htmlVars>>

\* time passes
ClockTick ==
    /\ mnow < MaxClock
    /\ mnow' = mnow + 1
    /\ UNCHANGED <<mparams, mlog, fcall, fprev>>
    /\ UNCHANGED <<appVars, harnessVars, cryptoVars, htmlVars>>

NextMetadata ==
    \/ CallCreateMetadata
    \/ CallCreateMetadataOther
    \/ ClockTick

SpecMetadata == InitMetadata /\ [][NextMetadata]_vars

----------------------------------------------------------------------------
(* Claims about createMetadata *)

SubRecords(r) == <<r.value.security, r.value.usage, r.value.compatibility>>

AllUnknown(p) ==
    /\ p.keyType \notin {"rsa", "ecdsa", "eddsa"}
    /\ p.keySize \notin {S2048, S3072, S4096, SP256, SP384, SEd25519, SEd448}
    /\ p.outputFormat \notin {"pem", "jwk", "ssh", "pgp"}

\* C20: building metadata for parameters whose keyType, keySize and
\* outputFormat are all unknown values raises an error instead of returning
\* a metadata record.
C20_UnknownParametersRaise ==
    \A i \in DOMAIN mlog :
        AllUnknown(mlog[i].params) => mlog[i].result.threw

----------------------------------------------------------------------------
(* Further properties of the generators of crypto.js (SpecCrypto) *)

----------------------------------------------------------------------------
(* Further properties of the wizard (Spec) *)

\* the passphrase may leave Step4: it is empty, or it equals the confirmation
\* entry and passes validatePassphrase for the selected format
PassphraseSettled ==
    \/ ~Truthy(passphrase)
    \/ /\ passphrase = confirmPassphrase
       /\ ValidatePassphrase([outputFormat |-> outputFormat,
                              passphrase |-> passphrase]).isValid

\* C22: Step 4 advances to the next step only if the passphrase is empty, or
\* equals the confirmation entry and passes validatePassphrase for the
\* selected format; on a mismatch or a passphrase that is too short for the
\* format, the Next button and the double-click handlers set an error and
\* leave the step where it is.
C22_Step4Gate ==
    [][/\ (step = 4 /\ step' = 5) => PassphraseSettled
       /\ ((Step4Next \/ Step4DoubleClick) /\ ~PassphraseSettled)
              => (step' = 4 /\ step4Error' # "")]_vars

\* a double click with a confirmed passphrase that is too short for pem
C22_Witness ==
    /\ step = 4
    /\ outputFormat = "pem"
    /\ Truthy(passphrase)
    /\ passphrase = confirmPassphrase
    /\ Len(passphrase) < MinPassphraseLen
    /\ step4Error = ErrorLength

----------------------------------------------------------------------------
(* src/src/utils/metadata.js: formatError, and a caller that hands it one   *)
(* error after the other; the latest two calls are kept.                    *)

MsgNotSupported == "Sentaku sareta angou houshiki ha kono browser de support sarete imasen."

MsgQuotaExceeded == "Memory seigen wo koemashita. Chiisai kagi size wo sentaku shite kudasai."

MsgDefaultError == "Error ga hassei shimashita."

\* variant: a message the error carries wins over the classification by name
FormatError_MessageFirst(error) ==
    IF error.message \notin {"", UndefinedAtom} THEN error.message
    ELSE IF error.name = "NotSupportedError" THEN MsgNotSupported
    ELSE IF error.name = "QuotaExceededError" THEN MsgQuotaExceeded
    ELSE MsgDefaultError

\* formatError(error); a || b is b when a is the empty string or undefined
FormatError(error) ==
    IF error.name = "NotSupportedError" THEN MsgNotSupported
    ELSE IF error.name = "QuotaExceededError" THEN MsgQuotaExceeded
    ELSE IF error.message \notin {"", UndefinedAtom} THEN error.message
    ELSE MsgDefaultError

\* the errors handed over: Error objects and DOMExceptions with and without
\* a message, and a thrown object that has neither name nor message
ErrorInputs ==
    [name : {"Error", "TypeError", "OperationError", "NotSupportedError",
             "QuotaExceededError", UndefinedAtom},
     message : {"", UndefinedAtom, "custom error", MsgLibrary,
                MsgGenRsaKeySize}]

InitFormat ==
    /\ vparams = Params("", EmptyStr, "", EmptyStr)
    /\ vresult = NoResult
    /\ AppInitFrom(FreshStorage)
    /\ cparams = [keySize |-> EmptyStr, outputFormat |-> ""]
    /\ ccall = NoCall
    /\ cprev = NoCall
    /\ HtmlInit
    /\ MetadataIdle

CallFormatError ==
    /\ \E error \in ErrorInputs :
          fcall' = [called |-> TRUE, error |-> error,
                    result |-> FormatError(error)]
    /\ fprev' = fcall
    /\ UNCHANGED <<mparams, mnow, mlog>>
    /\ UNCHANGED <<appVars, harnessVars, cryptoVars, htmlVars>>

NextFormat == CallFormatError

SpecFormat == InitFormat /\ [][NextFormat]_vars

\* C23: formatError returns the browser-not-supported message for an error
\* named NotSupportedError and the memory-limit message for one named
\* QuotaExceededError, whatever the error's message is; for any other error
\* it returns the error's message when that is non-empty and the generic
\* default message otherwise; the result is never empty.
C23_FormatError ==
    fcall.called =>
        /\ fcall.error.name = "NotSupportedError"
              => fcall.result = MsgNotSupported
        /\ fcall.error.name = "QuotaExceededError"
              => fcall.result = MsgQuotaExceeded
        /\ fcall.error.name \notin {"NotSupportedError", "QuotaExceededError"}
              => fcall.result =
                    IF fcall.error.message \in {"", UndefinedAtom}
                        THEN MsgDefaultError
                        ELSE fcall.error.message
        /\ fcall.result \notin {"", UndefinedAtom}
        /\ (/\ fprev.called
            /\ fprev.error.name = fcall.error.name
            /\ fcall.error.name \in {"NotSupportedError", "QuotaExceededError"})
              => fprev.result = fcall.result

\* two QuotaExceededError errors, one with a message and one without, get the
\* same text
C23_Witness ==
    /\ fcall.called
    /\ fprev.called
    /\ fcall.error.name = "QuotaExceededError"
    /\ fprev.error.name = "QuotaExceededError"
    /\ fcall.error.message = "custom error"
    /\ fprev.error.message = ""
    /\ fcall.result = MsgQuotaExceeded
    /\ fprev.result = MsgQuotaExceeded

----------------------------------------------------------------------------
(* The later App: the component that follows the Step4 tests in             *)
(* src/src/components/Step4.test.js (from line 204).  It renders the same   *)
(* Step1 .. Step5, keeps an error state, hands the params object to the     *)
(* generators, so that a generation can succeed and stays in flight until   *)
(* the primitive settles, and its Reset button also clears the error and    *)
(* the results.                                                             *)

\* The error dialog and the result dialog cover the page (fixed inset-0):
\* while one of them is shown, no control of the wizard or of the debug
\* panel can be clicked.
NoModal == appError = "" /\ ~(showResults /\ generatedKeys # Null)

\* `${texts[language].error}: ${err.message}`; no message of crypto.js or of
\* the validators contains the text the catch block looks for to add a hint
LaterErrorText(msg) == "Error: " \o msg

\* a variant whose catch block leaves the result dialog as it is
LaterCatch_KeepsShowResults(msg) ==
    /\ appError' = LaterErrorText(msg)
    /\ generatedKeys' = Null
    /\ isGenerating' = FALSE
    /\ UNCHANGED showResults

\* a variant without the finally block: only a successful run resets
\* isGenerating
LaterCatch_NoFinally(msg) ==
    /\ appError' = LaterErrorText(msg)
    /\ generatedKeys' = Null
    /\ showResults' = FALSE
    /\ UNCHANGED isGenerating

\* the catch and finally blocks of the later handleGenerate
LaterCatch(msg) ==
    /\ appError' = LaterErrorText(msg)
    /\ generatedKeys' = Null
    /\ showResults' = FALSE
    /\ isGenerating' = FALSE

\* the later handleGenerate up to its first await: the generator is called
\* with the params object and its promise stays pending until the primitive
\* settles, unless an entry check has rejected it already.  The call
\* histories primCalls and lastTrace belong to the runs of App.js and are
\* not continued here.
LaterHandleGenerate ==
    LET params     == CurParams
        validation == ValidateAll(params)
        fn         == CASE keyType = "rsa"   -> "generateRSAKeyPair"
                        [] keyType = "ecdsa" -> "generateECDSAKeyPair"
                        [] keyType = "eddsa" -> "generateEdDSAKeyPair"
                        [] OTHER             -> "none"
        gen        == CASE keyType = "rsa"   -> GenerateRSAKeyPair(params)
                        [] keyType = "ecdsa" -> GenerateECDSAKeyPair(params)
                        [] keyType = "eddsa" -> GenerateEdDSAKeyPair(params)
                        [] OTHER             -> Threw("Mukou na angou houshiki")
    IN  IF ~validation.isValid
            THEN /\ LaterCatch(validation.message)
                 /\ UNCHANGED <<pending, genCalls>>
        ELSE IF fn = "none"
            THEN /\ LaterCatch(gen.message)
                 /\ UNCHANGED <<pending, genCalls>>
        ELSE /\ isGenerating' = TRUE
             /\ appError' = ""
             /\ genCalls' = genCalls + 1
             /\ pending' = Append(pending,
                                  [ready  |-> gen.threw,
                                   params |-> params,
                                   gen    |-> gen])
             /\ UNCHANGED <<generatedKeys, showResults>>

\* Step5.handleGenerate under the later App: the Generate button (disabled
\* while isGenerating) and the double click on the summary panel
LaterStep5Generate ==
    /\ NoMicrotask
    /\ NoModal
    /\ step = 5
    /\ attempts < MaxRequests
    /\ \E via \in {"button", "doubleClick"} :
        /\ via = "button" => ~isGenerating
        /\ attempts' = attempts + 1
        /\ LET validation == ValidateAll(CurParams)
           IN  IF ~validation.isValid
                   THEN /\ step5Error' = validation.message
                        /\ UNCHANGED <<isGenerating, generatedKeys, showResults,
                                       appError, pending, genCalls>>
                   ELSE /\ step5Error' = ""
                        /\ LaterHandleGenerate
    /\ UNCHANGED <<step, keyType, keySize, outputFormat, passphrase, localStorage>>
    /\ UNCHANGED <<step3Error, confirmPassphrase, step4Error>>
    /\ UNCHANGED <<primCalls, lastTrace>>
    /\ UNCHANGED outsideApp

\* the key material the primitives draw under the later App; the App never
\* looks into a key, so one value stands for all
LaterMaterials == {"k1"}

\* the key pair a generator returns for params when no library call throws:
\* the branches of RunRSA, RunECDSA and RunEdDSA
LaterEncoded(params, m) ==
    CASE params.keyType = "eddsa" ->
            EdDSAEncode(params, m, SshTypeEdDSA(params.keySize))
      [] params.outputFormat = "pgp" -> PgpEncode(params, m)
      [] params.keyType = "rsa" -> NativeEncode(params, m, "rsa")
      [] OTHER -> NativeEncode(params, m, SshTypeEcdsa(params.keySize))

\* what the promise of the run k can settle with: the error of the entry
\* check made at the call (k.gen), or else the key pair, or the error of a
\* library call
LaterOutcomes(k) ==
    {RunGenerator(k.gen, <<>>, LaterEncoded(k.params, m), at).outcome :
        m \in LaterMaterials, at \in {0, 1}}

\* the later handleGenerate after its await, for the run at position i: the
\* promise of the generator settles (a rejected one is rethrown into the
\* catch block); with a key pair the metadata are built from the selections
\* the handler was created with and the results are shown.  A run whose
\* promise is settled already continues before any other one.
LaterResume ==
    /\ \E i \in 1..Len(pending) :
        /\ NoMicrotask \/ pending[i].ready
        /\ \E out \in LaterOutcomes(pending[i]),
              metadata \in {CreateMetadata(pending[i].params, 0).value} :
            IF out.threw
                THEN LaterCatch(out.message)
                ELSE /\ generatedKeys' = [publicKey  |-> out.publicKey,
                                          privateKey |-> out.privateKey,
                                          metadata   |-> metadata]
                     /\ showResults' = TRUE
                     /\ isGenerating' = FALSE
                     /\ UNCHANGED appError
        /\ pending' = SubSeq(pending, 1, i - 1)
                          \o SubSeq(pending, i + 1, Len(pending))
    /\ UNCHANGED <<attempts, genCalls, primCalls, lastTrace>>
    /\ UNCHANGED <<step, keyType, keySize, outputFormat, passphrase, localStorage>>
    /\ UNCHANGED <<step3Error, confirmPassphrase, step4Error, step5Error>>
    /\ UNCHANGED outsideApp

\* the close buttons of the result dialog: setShowResults(false)
LaterCloseResults ==
    /\ NoMicrotask
    /\ showResults /\ generatedKeys # Null
    /\ appError = ""
    /\ showResults' = FALSE
    /\ UNCHANGED <<isGenerating, generatedKeys, appError, pending, attempts,
                   genCalls, primCalls, lastTrace>>
    /\ UNCHANGED <<step, keyType, keySize, outputFormat, passphrase, localStorage>>
    /\ UNCHANGED <<step3Error, confirmPassphrase, step4Error, step5Error>>
    /\ UNCHANGED outsideApp

\* the close button of the error dialog: setError('')
LaterCloseError ==
    /\ NoMicrotask
    /\ appError # ""
    /\ appError' = ""
    /\ UNCHANGED <<isGenerating, generatedKeys, showResults, pending, attempts,
                   genCalls, primCalls, lastTrace>>
    /\ UNCHANGED <<step, keyType, keySize, outputFormat, passphrase, localStorage>>
    /\ UNCHANGED <<step3Error, confirmPassphrase, step4Error, step5Error>>
    /\ UNCHANGED outsideApp

\* the Reset button of the debug panel of the later App
LaterResetState ==
    /\ NoMicrotask
    /\ NoModal
    /\ step' = 1
    /\ keyType' = ""
    /\ keySize' = EmptyStr
    /\ outputFormat' = ""
    /\ passphrase' = EmptyStr
    /\ appError' = ""
    /\ generatedKeys' = Null
    /\ showResults' = FALSE
    /\ localStorage' = Persisted(1, "", EmptyStr, "", EmptyStr)
    /\ IF step = 1
        THEN UNCHANGED <<step3Error, confirmPassphrase, step4Error, step5Error>>
        ELSE StepLocalReset
    /\ UNCHANGED <<isGenerating, pending, attempts, genCalls, primCalls, lastTrace>>
    /\ UNCHANGED outsideApp

InitLater ==
    /\ vparams = Params("", EmptyStr, "", EmptyStr)
    /\ vresult = NoResult
    /\ \E stored \in StoredStates : AppInitFrom(stored)
    /\ cparams = [keySize |-> EmptyStr, outputFormat |-> ""]
    /\ ccall = NoCall
    /\ cprev = NoCall
    /\ HtmlInit
    /\ MetadataIdle

NextLater ==
    \/ NoModal /\ Step1Select
    \/ NoModal /\ Step2Select
    \/ NoModal /\ Step3Select
    \/ NoModal /\ HandleBack
    \/ NoModal /\ Step4TypePassphrase
    \/ NoModal /\ Step4TypeConfirm
    \/ NoModal /\ Step4Next
    \/ NoModal /\ Step4DoubleClick
    \/ LaterStep5Generate
    \/ LaterResume
    \/ LaterCloseResults
    \/ LaterCloseError
    \/ LaterResetState

SpecLater == InitLater /\ [][NextLater]_vars

\* The later App used from its confirmation step only: a session that an
\* earlier one left at step 5, in which the user starts generations, closes
\* the dialogs, goes back and resets, and never selects or types anything.
InitLive ==
    /\ vparams = Params("", EmptyStr, "", EmptyStr)
    /\ vresult = NoResult
    /\ \E stored \in {st \in StoredStates : st.step = 5} : AppInitFrom(stored)
    /\ cparams = [keySize |-> EmptyStr, outputFormat |-> ""]
    /\ ccall = NoCall
    /\ cprev = NoCall
    /\ HtmlInit
    /\ MetadataIdle

NextLive ==
    \/ NoModal /\ HandleBack
    \/ LaterStep5Generate
    \/ LaterResume
    \/ LaterCloseResults
    \/ LaterCloseError
    \/ LaterResetState

\* The primitive of a generation in flight returns or throws, and the
\* continuation of handleGenerate then runs: the event loop does not starve
\* a settled promise.
LiveLater == InitLive /\ [][NextLive]_vars /\ WF_vars(LaterResume)

\* C24: at most one key generation is in flight at any time: while a call of
\* App.handleGenerate has started and not yet finished (isGenerating is
\* true), no step is a run of Step5.handleGenerate - by the Generate button
\* or by the double click on the summary panel - and none calls a generator.
\* Under the later App a generation stays in flight until its primitive
\* settles, and the double click on the summary panel, which is not guarded
\* by isGenerating, starts a second one.
C24_OneGenerationInFlight ==
    [][/\ Len(pending') <= 1
       /\ isGenerating => (attempts' = attempts /\ genCalls' = genCalls)]_vars

\* C25: whenever the results are displayed (showResults, with generatedKeys
\* set), the type, size and format of generatedKeys.metadata equal the
\* current keyType, keySize and outputFormat, which name the download files.
\* The Back button of Step5 stays enabled while a generation is in flight;
\* a selection changed in the meantime differs from the metadata of the
\* results that are then shown.
C25_ResultsMatchSelections ==
    (showResults /\ generatedKeys # Null)
        => /\ generatedKeys.metadata.type = keyType
           /\ generatedKeys.metadata.size = keySize
           /\ generatedKeys.metadata.format = outputFormat

\* C26: whenever the metadata of a result say hasPassphrase = true, the
\* private key of the same result is encrypted under a passphrase, whatever
\* output format the validators accepted together with the passphrase.
\* The jwk branch of the generators exports the private key as it is.
C26_HasPassphraseMeansEncrypted ==
    (generatedKeys # Null /\ generatedKeys.metadata.hasPassphrase)
        => generatedKeys.privateKey.encrypted

\* C27: showResults = true implies that generatedKeys is set, after any
\* sequence of successful and failed generations, closings of the dialogs
\* and uses of the Reset button.
C27_ShownResultsExist == showResults => generatedKeys # Null

\* the results of the second request of a session are shown and nothing is
\* in flight any more
C27_Witness ==
    /\ showResults
    /\ generatedKeys # Null
    /\ attempts = 2
    /\ genCalls = 2
    /\ pending = <<>>
    /\ appError = ""

\* C28: every call of App.handleGenerate ends with isGenerating = false,
\* whether the validation fails, the primitive fails or the generation
\* succeeds, given that the primitive returns or throws: once no call is in
\* flight isGenerating is false, and from any state with a call in flight a
\* state is reached where none is in flight and isGenerating is false.
C28_GenerationEnds ==
    /\ [](pending = <<>> => ~isGenerating)
    /\ (pending # <<>>) ~> (pending = <<>> /\ ~isGenerating)

\* a call has ended in the catch block: its error is shown, nothing is in
\* flight and isGenerating is false again
C28_Witness ==
    /\ genCalls = 1
    /\ attempts = 1
    /\ pending = <<>>
    /\ appError # ""
    /\ ~isGenerating

----------------------------------------------------------------------------
(* The navigation handlers of App called at any step: the wizard of App.js, *)
(* started afresh at step 1, with handleNext and handleBack also invoked    *)
(* where no button of the current step is bound to them.                    *)

\* variant: nextStep of part_008, setCurrentStep(prev => prev + 1)
CallHandleNext_Unclamped ==
    /\ NoMicrotask
    /\ step' = step + 1
    /\ StepLocalReset
    /\ localStorage' = Persisted(step', keyType, keySize, outputFormat, passphrase)
    /\ UNCHANGED <<keyType, keySize, outputFormat, passphrase>>
    /\ UNCHANGED genVars
    /\ UNCHANGED outsideApp

\* App.handleNext, setStep(prev => Math.min(prev + 1, 5)); at step 5 the state
\* is the same and nothing is rendered again
CallHandleNext ==
    /\ NoMicrotask
    /\ step' = IF step + 1 < 5 THEN step + 1 ELSE 5
    /\ IF step' = step
        THEN UNCHANGED <<step3Error, confirmPassphrase, step4Error, step5Error>>
        ELSE StepLocalReset
    /\ localStorage' = Persisted(step', keyType, keySize, outputFormat, passphrase)
    /\ UNCHANGED <<keyType, keySize, outputFormat, passphrase>>
    /\ UNCHANGED genVars
    /\ UNCHANGED outsideApp

\* App.handleBack, setStep(prev => Math.max(prev - 1, 1))
CallHandleBack ==
    /\ NoMicrotask
    /\ step' = IF step - 1 > 1 THEN step - 1 ELSE 1
    /\ IF step' = step
        THEN UNCHANGED <<step3Error, confirmPassphrase, step4Error, step5Error>>
        ELSE StepLocalReset
    /\ localStorage' = Persisted(step', keyType, keySize, outputFormat, passphrase)
    /\ UNCHANGED <<keyType, keySize, outputFormat, passphrase>>
    /\ UNCHANGED genVars
    /\ UNCHANGED outsideApp

InitNav ==
    /\ vparams = Params("", EmptyStr, "", EmptyStr)
    /\ vresult = NoResult
    /\ AppInitFrom(FreshStorage)
    /\ cparams = [keySize |-> EmptyStr, outputFormat |-> ""]
    /\ ccall = NoCall
    /\ cprev = NoCall
    /\ HtmlInit
    /\ MetadataIdle

NextNav ==
    \/ Next
    \/ CallHandleNext
    \/ CallHandleBack

SpecNav == InitNav /\ [][NextNav]_vars

====
